---- MODULE Spec2Model ----
(***************************************************************************)
(* HawkAI correlation and reachability core.                               *)
(*                                                                         *)
(*   grouping      groupFindings and its helpers (signal taxonomy,         *)
(*                 clustering per file, composite score, severity)         *)
(*   scoring       the scoring configuration and the boosts / demotions    *)
(*   reachability  propagateConfidence and detectRiskyPaths, whose         *)
(*                 depth-first searches are modelled call by call          *)
(*                                                                         *)
(* Numbers.  The program computes with IEEE doubles.  Here every           *)
(* confidence, weight, score and threshold is an integer count of          *)
(* 1/SCALE (SCALE = 10000), products are truncated to that grid.  The      *)
(* inputs and the configuration values are multiples of 0.01, so the       *)
(* products of two of them are exact; only the diminishing factor          *)
(* 1/(1+0.35 i) and chains of three or more products are truncated.        *)
(***************************************************************************)
EXTENDS Integers, Sequences, FiniteSets, TLC

VARIABLES
    findings,       \* groupFindings: the Finding[] handed to it
    CURRENT,        \* scoring.ts: the module-level scoring configuration
    groups,         \* groupFindings: the FindingGroup[] it returned
    gpc,            \* "ready" before groupFindings is called, "grouped" after
    load,           \* performScan: "pending", or how the scan's load of scoring.json ended
    graph,          \* the ReachabilityGraph: nodes and edges
    rpc,            \* "idle", "propagate", "detect" or "done"
    propagated,     \* propagateConfidence has rewritten the edge weights
    edgeWeights,    \* propagateConfidence: edge id -> base weight
    pathScores,     \* propagateConfidence: edge id -> best path score
    highConfNodes,  \* propagateConfidence: the seeds of findPaths
    seed,           \* propagateConfidence: index of the next seed
    pstack,         \* findPaths: the call stack (start, pathLength, depth, edge index)
    pvisited,       \* findPaths: visited
    sourceNodes,    \* detectRiskyPaths: sourceNodes, as node ids
    sinkNodes,      \* detectRiskyPaths: sinkNodes, as node ids
    si,             \* detectRiskyPaths: index of the next source
    ki,             \* detectRiskyPaths: index of the next sink
    sink,           \* findPathToSink: sink
    stack,          \* findPathToSink: the call stack (start, depth, edge index)
    visited,        \* findPathToSink: visited
    path,           \* findPathToSink: path, as node ids
    transforms,     \* findPathToSink: transforms, as node ids
    riskyPaths,     \* detectRiskyPaths: riskyPaths
    result,         \* detectRiskyPaths: the value returned
    epc,            \* enrichGraphWithCallEdges: "ready", "files", "edges" or "done"
    filesWithFindings, \* enrichGraphWithCallEdges: the number of files in filesWithFindings
    extractor,      \* what extractCallEdges and fileContents give for each file
    filesToProcess, \* enrichGraphWithCallEdges: the number of files in filesToProcess
    fi,             \* enrichGraphWithCallEdges: index of the file of the outer loop
    edgesToProcess, \* enrichGraphWithCallEdges: the number of edges in edgesToProcess
    ci,             \* enrichGraphWithCallEdges: index of the call edge of the inner loop
    callEdgeCount,  \* enrichGraphWithCallEdges: callEdgeCount
    edgesAddedThisFile, \* enrichGraphWithCallEdges: edgesAddedThisFile
    extractCalls,   \* the number of calls of extractCallEdges
    ppc,            \* generateRedTeamingPlans: "off", "returned" or "threw"
    redTeamingPlans, \* generateRedTeamingPlans: the value returned
    prevCfg,        \* history: the argument of the setScoringConfig call before the last
    lastCfg         \* history: the argument of the last setScoringConfig call

gvars == <<findings, CURRENT, groups, gpc, load>>

propVars == <<edgeWeights, pathScores, highConfNodes, seed, pstack, pvisited>>

riskVars == <<sourceNodes, sinkNodes, si, ki, sink, stack, visited, path, transforms,
              riskyPaths, result>>

rvars == <<graph, rpc, propagated, propVars, riskVars>>

enrichVars == <<epc, filesWithFindings, extractor, filesToProcess, fi, edgesToProcess, ci,
                callEdgeCount, edgesAddedThisFile, extractCalls>>

planVars == <<ppc, redTeamingPlans>>

histVars == <<prevCfg, lastCfg>>

vars == <<gvars, rvars, enrichVars, planVars, histVars>>

---------------------------------------------------------------------------
(* Fixed-point numbers *)

SCALE == 100 * 100

Mul(a, b) == (a * b) \div SCALE

Min(a, b) == IF a <= b THEN a ELSE b

Max(a, b) == IF a >= b THEN a ELSE b

\* JavaScript's undefined / null in a field that otherwise holds a number >= 0
Null == 0 - 1

---------------------------------------------------------------------------
(* scoring.ts *)

DEFAULT_CONFIG ==
    [ weights    |-> [usage |-> 7500, hint |-> 4500, metadata |-> 3000],
      thresholds |-> [critical |-> 9000, high |-> 7000, moderate |-> 5000, minGroup |-> 3500],
      boosts     |-> [usagePlusHint |-> 11500, usagePlusMetadata |-> 10500],
      demotions  |-> [testOrExamplePath |-> 8500, loopWithoutInvoke |-> 8000, mockLikePath |-> 9000],
      caps       |-> [perFileFindings |-> 200, perGroupRelated |-> 6] ]

\* { ...a, ...b }: the keys of both, b's values winning
Spread(d, cfg, s) ==
    IF s \in DOMAIN cfg
    THEN [k \in (DOMAIN d[s]) \cup (DOMAIN cfg[s]) |-> IF k \in DOMAIN cfg[s] THEN cfg[s][k] ELSE d[s][k]]
    ELSE d[s]

\* A configuration that builds on the current one
CumulativeConfig(cfg) ==
    [ weights    |-> Spread(CURRENT, cfg, "weights"),
      thresholds |-> Spread(CURRENT, cfg, "thresholds"),
      boosts     |-> Spread(CURRENT, cfg, "boosts"),
      demotions  |-> Spread(CURRENT, cfg, "demotions"),
      caps       |-> Spread(CURRENT, cfg, "caps") ]

setScoringConfig(cfg) ==
    [ weights    |-> Spread(DEFAULT_CONFIG, cfg, "weights"),
      thresholds |-> Spread(DEFAULT_CONFIG, cfg, "thresholds"),
      boosts     |-> Spread(DEFAULT_CONFIG, cfg, "boosts"),
      demotions  |-> Spread(DEFAULT_CONFIG, cfg, "demotions"),
      caps       |-> Spread(DEFAULT_CONFIG, cfg, "caps") ]

baseWeightForRole(c, role) ==
    IF role = "usage" THEN c.weights.usage
    ELSE IF role = "hint" THEN c.weights.hint
    ELSE c.weights.metadata

scoreToSeverity(c, score) ==
    IF score >= c.thresholds.critical THEN "critical"
    ELSE IF score >= c.thresholds.high THEN "high"
    ELSE IF score >= c.thresholds.moderate THEN "moderate"
    ELSE "low"

\* A scoring without corroboration boosts
NoBoosts(c, score, usageCount, hintCount, metadataCount) == score

applyBoosts(c, score, usageCount, hintCount, metadataCount) ==
    LET s1 == IF usageCount >= 1 /\ hintCount >= 1
              THEN Mul(score, c.boosts.usagePlusHint) ELSE score
    IN  IF usageCount >= 1 /\ metadataCount >= 1
        THEN Mul(s1, c.boosts.usagePlusMetadata) ELSE s1

applyDemotions(c, score, isTest, loopOnly, isMock) ==
    LET s1 == IF isTest THEN Mul(score, c.demotions.testOrExamplePath) ELSE score
        s2 == IF loopOnly THEN Mul(s1, c.demotions.loopWithoutInvoke) ELSE s1
    IN  IF isMock THEN Mul(s2, c.demotions.mockLikePath) ELSE s2

---------------------------------------------------------------------------
(* grouping: the signal taxonomy *)

Rel(t, parents, children) == [type |-> t, parentRules |-> parents, childRules |-> children]

\* An entry without parentRules / childRules is given the empty list: the code
\* only iterates childRules and asks parentRules?.includes(...).
RULE_RELATIONSHIPS ==
       "AI-FP-OPENAI-IMPORT" :> Rel("hint", <<"AI-FP-OPENAI-CLIENT", "AI-FP-CHAT-COMPLETION", "AI-FP-OPENAI-ENDPOINT", "AI-FP-OPENAI-FUNCTION-CALLING">>, <<>>)
    @@ "AI-FP-OPENAI-CLIENT" :> Rel("usage", <<>>, <<"AI-FP-OPENAI-IMPORT">>)
    @@ "AI-FP-CHAT-COMPLETION" :> Rel("usage", <<>>, <<"AI-FP-OPENAI-IMPORT", "AI-FP-OPENAI-CLIENT", "AI-FP-GPT-MODEL", "AI-FP-GPT-MODEL-EXPANDED">>)
    @@ "AI-FP-GPT-MODEL" :> Rel("hint", <<"AI-FP-CHAT-COMPLETION">>, <<>>)
    @@ "AI-FP-GPT-MODEL-EXPANDED" :> Rel("hint", <<"AI-FP-CHAT-COMPLETION">>, <<>>)
    @@ "AI-FP-OPENAI-ENDPOINT" :> Rel("usage", <<>>, <<"AI-FP-OPENAI-IMPORT">>)
    @@ "AI-FP-OPENAI-FUNCTION-CALLING" :> Rel("usage", <<>>, <<"AI-FP-OPENAI-IMPORT", "AI-FP-OPENAI-CLIENT">>)
    @@ "AI-FP-ANTHROPIC-IMPORT" :> Rel("hint", <<"AI-FP-ANTHROPIC-ENDPOINT">>, <<>>)
    @@ "AI-FP-ANTHROPIC-ENDPOINT" :> Rel("usage", <<>>, <<"AI-FP-ANTHROPIC-IMPORT", "AI-FP-CLAUDE-MODEL">>)
    @@ "AI-FP-CLAUDE-MODEL" :> Rel("hint", <<"AI-FP-ANTHROPIC-ENDPOINT">>, <<>>)
    @@ "AI-FP-GOOGLE-GEMINI-IMPORT" :> Rel("hint", <<"AI-FP-GOOGLE-ENDPOINT">>, <<>>)
    @@ "AI-FP-GEMINI-MODEL" :> Rel("hint", <<"AI-FP-GOOGLE-ENDPOINT">>, <<>>)
    @@ "AI-FP-GOOGLE-ENDPOINT" :> Rel("usage", <<>>, <<"AI-FP-GOOGLE-GEMINI-IMPORT", "AI-FP-GEMINI-MODEL">>)
    @@ "AI-FP-AZURE-OPENAI-IMPORT" :> Rel("hint", <<>>, <<>>)
    @@ "AI-FP-AWS-BEDROCK-IMPORT" :> Rel("hint", <<"AI-FP-AWS-BEDROCK-ENDPOINT">>, <<>>)
    @@ "AI-FP-AWS-BEDROCK-ENDPOINT" :> Rel("usage", <<>>, <<"AI-FP-AWS-BEDROCK-IMPORT">>)
    @@ "AI-FP-MISTRAL-IMPORT" :> Rel("hint", <<>>, <<>>)
    @@ "AI-FP-MISTRAL-MODEL" :> Rel("hint", <<>>, <<>>)
    @@ "AI-FP-COHERE-IMPORT" :> Rel("hint", <<>>, <<>>)
    @@ "AI-FP-GROQ-IMPORT" :> Rel("hint", <<>>, <<>>)
    @@ "AI-FP-LM-STUDIO-IMPORT" :> Rel("hint", <<>>, <<>>)
    @@ "AI-FP-OLLAMA-IMPORT" :> Rel("hint", <<>>, <<>>)
    @@ "AI-FP-VLLM-IMPORT" :> Rel("hint", <<>>, <<>>)
    @@ "AI-FP-LLAMA-CPP-IMPORT" :> Rel("hint", <<>>, <<>>)
    @@ "AI-FP-LANGCHAIN-IMPORT" :> Rel("hint", <<"AI-FP-LCEL-PATTERN">>, <<>>)
    @@ "AI-FP-LCEL-PATTERN" :> Rel("usage", <<>>, <<"AI-FP-LANGCHAIN-IMPORT">>)
    @@ "AI-FP-LANGGRAPH-IMPORT" :> Rel("hint", <<"AG-LANGGRAPH-STATEGRAPH", "AG-LANGGRAPH-INVOKE", "AG-LANGGRAPH-STREAM">>, <<>>)
    @@ "AI-FP-AUTOGEN-IMPORT" :> Rel("hint", <<"AG-A2A-EXECUTOR", "AG-A2A-MESSAGING">>, <<>>)
    @@ "AI-FP-CREWAI-IMPORT" :> Rel("hint", <<"AG-A2A-EXECUTOR", "AG-A2A-MESSAGING">>, <<>>)
    @@ "AI-FP-SEMANTIC-KERNEL-IMPORT" :> Rel("hint", <<>>, <<>>)
    @@ "AI-FP-LLAMAINDEX-IMPORT" :> Rel("hint", <<>>, <<>>)
    @@ "AI-FP-DSPY-IMPORT" :> Rel("hint", <<>>, <<>>)
    @@ "AI-FP-HAYSTACK-IMPORT" :> Rel("hint", <<>>, <<>>)
    @@ "AI-MCP-IMPORT" :> Rel("hint", <<"AI-MCP-CLIENT", "AI-MCP-TOOLS">>, <<>>)
    @@ "AI-MCP-CLIENT" :> Rel("usage", <<>>, <<"AI-MCP-IMPORT">>)
    @@ "AI-MCP-TOOLS" :> Rel("usage", <<>>, <<"AI-MCP-IMPORT", "AI-MCP-CLIENT">>)
    @@ "AI-MCP-PROTOCOL" :> Rel("metadata", <<"AI-MCP-TOOLS", "AI-MCP-CLIENT">>, <<>>)
    @@ "AI-MCP-CONFIG" :> Rel("hint", <<"AI-MCP-TOOLS", "AI-MCP-CLIENT">>, <<>>)
    @@ "AI-MCP-ENV" :> Rel("hint", <<"AI-MCP-TOOLS", "AI-MCP-CLIENT">>, <<>>)
    @@ "AG-ROUTER-ZEROSHOT" :> Rel("usage", <<>>, <<>>)
    @@ "AG-TOOL-SELECTION-CLASSIFIER" :> Rel("usage", <<>>, <<>>)
    @@ "AG-LOOP-AUTOEXEC" :> Rel("usage", <<>>, <<>>)
    @@ "AG-LOOP-WITH-AGENT" :> Rel("usage", <<>>, <<>>)
    @@ "AG-ASYNC-AGENT-LOOP" :> Rel("usage", <<>>, <<>>)
    @@ "AG-PLAN-EXEC" :> Rel("usage", <<>>, <<>>)
    @@ "AG-LANGGRAPH-STATEGRAPH" :> Rel("usage", <<>>, <<"AI-FP-LANGGRAPH-IMPORT">>)
    @@ "AG-LANGGRAPH-NODES" :> Rel("usage", <<>>, <<"AI-FP-LANGGRAPH-IMPORT", "AG-LANGGRAPH-STATEGRAPH">>)
    @@ "AG-LANGGRAPH-EDGES" :> Rel("usage", <<>>, <<"AI-FP-LANGGRAPH-IMPORT", "AG-LANGGRAPH-STATEGRAPH">>)
    @@ "AG-LANGGRAPH-CONDITIONAL-EDGES" :> Rel("usage", <<>>, <<"AI-FP-LANGGRAPH-IMPORT", "AG-LANGGRAPH-STATEGRAPH">>)
    @@ "AG-LANGGRAPH-CREATE-AGENT" :> Rel("usage", <<>>, <<"AI-FP-LANGGRAPH-IMPORT">>)
    @@ "AG-LANGGRAPH-COMPILE" :> Rel("usage", <<>>, <<"AI-FP-LANGGRAPH-IMPORT", "AG-LANGGRAPH-STATEGRAPH">>)
    @@ "AG-LANGGRAPH-INVOKE" :> Rel("usage", <<>>, <<"AI-FP-LANGGRAPH-IMPORT", "AG-LANGGRAPH-STATEGRAPH", "AG-LANGGRAPH-COMPILE">>)
    @@ "AG-LANGGRAPH-STREAM" :> Rel("usage", <<>>, <<"AI-FP-LANGGRAPH-IMPORT", "AG-LANGGRAPH-STATEGRAPH", "AG-LANGGRAPH-COMPILE">>)
    @@ "AG-LANGCHAIN-INVOKE" :> Rel("usage", <<>>, <<"AI-FP-LANGCHAIN-IMPORT">>)
    @@ "AG-TOOL-DECORATOR" :> Rel("usage", <<>>, <<>>)
    @@ "AG-TOOL-CLASS" :> Rel("usage", <<>>, <<>>)
    @@ "AG-TOOL-LIST" :> Rel("usage", <<>>, <<>>)
    @@ "AG-FUNCTION-TOOL-TYPE" :> Rel("usage", <<>>, <<"AI-FP-OPENAI-FUNCTION-CALLING">>)
    @@ "AG-A2A-FRAMEWORK" :> Rel("hint", <<"AG-A2A-EXECUTOR", "AG-A2A-MESSAGING">>, <<>>)
    @@ "AG-A2A-EXECUTOR" :> Rel("usage", <<>>, <<"AG-A2A-FRAMEWORK", "AI-FP-AUTOGEN-IMPORT", "AI-FP-CREWAI-IMPORT">>)
    @@ "AG-A2A-MESSAGING" :> Rel("usage", <<>>, <<"AG-A2A-FRAMEWORK", "AI-FP-AUTOGEN-IMPORT", "AI-FP-CREWAI-IMPORT">>)
    @@ "AG-A2A-ORCHESTRATION" :> Rel("hint", <<"AG-A2A-EXECUTOR", "AG-A2A-MESSAGING">>, <<>>)
    @@ "RAG-VECTOR-DB" :> Rel("hint", <<"RAG-RETRIEVAL", "RAG-CHAIN", "RAG-LANGCHAIN-VECTORSTORE">>, <<>>)
    @@ "RAG-EMBEDDINGS" :> Rel("hint", <<"RAG-RETRIEVAL", "RAG-CHAIN", "RAG-LANGCHAIN-VECTORSTORE">>, <<>>)
    @@ "RAG-TEXT-SPLITTER" :> Rel("hint", <<"RAG-RETRIEVAL", "RAG-CHAIN", "RAG-LANGCHAIN-VECTORSTORE">>, <<>>)
    @@ "RAG-RETRIEVAL" :> Rel("usage", <<>>, <<"RAG-VECTOR-DB", "RAG-EMBEDDINGS", "RAG-TEXT-SPLITTER">>)
    @@ "RAG-CHAIN" :> Rel("usage", <<>>, <<"RAG-VECTOR-DB", "RAG-EMBEDDINGS", "RAG-TEXT-SPLITTER", "RAG-RETRIEVAL">>)
    @@ "RAG-LANGCHAIN-VECTORSTORE" :> Rel("usage", <<>>, <<"RAG-VECTOR-DB", "RAG-EMBEDDINGS">>)
    @@ "RAG-CONTEXT-INJECTION" :> Rel("usage", <<>>, <<"RAG-RETRIEVAL", "RAG-CHAIN">>)

RuleInTaxonomy(ruleId) == ruleId \in DOMAIN RULE_RELATIONSHIPS

\* RULE_RELATIONSHIPS[ruleId]?.type
RuleType(ruleId) == IF RuleInTaxonomy(ruleId) THEN RULE_RELATIONSHIPS[ruleId].type ELSE "undefined"

ChildRules(ruleId) == IF RuleInTaxonomy(ruleId) THEN RULE_RELATIONSHIPS[ruleId].childRules ELSE <<>>

ParentRules(ruleId) == IF RuleInTaxonomy(ruleId) THEN RULE_RELATIONSHIPS[ruleId].parentRules ELSE <<>>

SeqToSet(s) == {s[i] : i \in 1..Len(s)}

---------------------------------------------------------------------------
(* Strings: String.prototype.toLowerCase, includes, slice(0, n) *)

UpperToLower ==
       "A" :> "a" @@ "B" :> "b" @@ "C" :> "c" @@ "D" :> "d" @@ "E" :> "e" @@ "F" :> "f"
    @@ "G" :> "g" @@ "H" :> "h" @@ "I" :> "i" @@ "J" :> "j" @@ "K" :> "k" @@ "L" :> "l"
    @@ "M" :> "m" @@ "N" :> "n" @@ "O" :> "o" @@ "P" :> "p" @@ "Q" :> "q" @@ "R" :> "r"
    @@ "S" :> "s" @@ "T" :> "t" @@ "U" :> "u" @@ "V" :> "v" @@ "W" :> "w" @@ "X" :> "x"
    @@ "Y" :> "y" @@ "Z" :> "z"

LowerChar(ch) == IF ch \in DOMAIN UpperToLower THEN UpperToLower[ch] ELSE ch

RECURSIVE ToLower(_)
ToLower(s) ==
    IF s = "" THEN "" ELSE LowerChar(SubSeq(s, 1, 1)) \o ToLower(SubSeq(s, 2, Len(s)))

Includes(s, p) == \E i \in 1..(Len(s) - Len(p) + 1) : SubSeq(s, i, i + Len(p) - 1) = p

IncludesAny(s, ps) == \E p \in ps : Includes(s, p)

Slice(s, n) == IF Len(s) <= n THEN s ELSE SubSeq(s, 1, n)

---------------------------------------------------------------------------
(* grouping: helpers *)

LEVELS == <<"low", "moderate", "high", "critical">>

severityToNumber(severity) ==
    IF \E i \in 1..Len(LEVELS) : LEVELS[i] = severity
    THEN CHOOSE i \in 1..Len(LEVELS) : LEVELS[i] = severity
    ELSE 0

\* A grouping that never raises a severity for related evidence
NoSeverityBoost(severity, boost) == severity

boostSeverity(severity, boost) ==
    IF boost = 0 THEN severity
    ELSE LEVELS[Min(severityToNumber(severity) + boost, Len(LEVELS))]

primaryCandidateScore(f) ==
    severityToNumber(f.severity) * ((6 * SCALE) \div 10) + (f.confidence * 4) \div 10
        + (IF f.ruleId \in {"AG-LANGGRAPH-INVOKE", "AG-LANGGRAPH-STREAM",
                           "AI-FP-OPENAI-ENDPOINT", "AG-LANGCHAIN-INVOKE"} THEN (15 * SCALE) \div 100 ELSE 0)

getRelatedCap(c) == c.caps.perGroupRelated

isTestOrExamplePath(p) ==
    IncludesAny(ToLower(p), {"/test/", "/tests/", "__tests__", "/example/", "/examples/"})

isMockLikePath(p) ==
    IncludesAny(ToLower(p), {"/__mocks__/", "/mocks/", "/mock/", "/stubs/", "/fixtures/", "/samples/"})

\* A demotion that takes no group for a bare loop
NeverLoopOnly(primary, signals) == FALSE

isLoopOnlyGroup(primary, signals) ==
    LET allRuleIds == {primary.ruleId} \cup {signals[i].ruleId : i \in 1..Len(signals)}
    IN  /\ allRuleIds \cap {"AG-LOOP-AUTOEXEC", "AG-LOOP-WITH-AGENT", "AG-ASYNC-AGENT-LOOP"} # {}
        /\ allRuleIds \cap {"AG-LANGGRAPH-INVOKE", "AG-LANGGRAPH-STREAM", "AG-LANGCHAIN-INVOKE"} = {}

\* The role of the primary (?? "usage") and of a related finding (?? "hint")
PrimaryRole(f) == IF RuleInTaxonomy(f.ruleId) THEN RuleType(f.ruleId) ELSE "usage"

RelatedRole(f) == IF RuleInTaxonomy(f.ruleId) THEN RuleType(f.ruleId) ELSE "hint"

Signal(c, f, role) ==
    [ruleId |-> f.ruleId, weight |-> baseWeightForRole(c, role), confidence |-> f.confidence, role |-> role]

Contributing(c, primary, related) ==
    <<Signal(c, primary, PrimaryRole(primary))>>
        \o [i \in 1..Len(related) |-> Signal(c, related[i], RelatedRole(related[i]))]

RoleCount(signals, role) == Cardinality({i \in 1..Len(signals) : signals[i].role = role})

\* a related signal at index idx counts with the factor 1 / (1 + idx * 0.35)
RECURSIVE SignalSum(_, _)
SignalSum(signals, i) ==
    IF i > Len(signals) THEN 0
    ELSE (IF i = 1 THEN Mul(signals[1].weight, signals[1].confidence)
          ELSE Mul(Mul(signals[i].weight, signals[i].confidence), (SCALE * 100) \div (100 + 35 * (i - 2))))
         + SignalSum(signals, i + 1)

\* The boosts and demotions applied to the summed signals
ScoreOfSignals(c, primary, signals, file) ==
    applyDemotions(c,
        applyBoosts(c, SignalSum(signals, 1), RoleCount(signals, "usage"),
                    RoleCount(signals, "hint"), RoleCount(signals, "metadata")),
        isTestOrExamplePath(file), isLoopOnlyGroup(primary, signals), isMockLikePath(file))

\* The score after boosts and demotions, before the clamp.  groupFileFindings
\* (usage clusters) and groupFindings (phase 2) compute it with the same code.
CompositeRaw(c, primary, related, file) ==
    ScoreOfSignals(c, primary, Contributing(c, primary, related), file)

\* A composite score left as computed
NoClamp(score) == score

\* Math.max(0, Math.min(1, score))
Clamp01(score) == Max(0, Min(SCALE, score))

\* A re-derivation that takes the severity of the score as it is
MappedSeverity(c, severity, score) == scoreToSeverity(c, score)

\* mapped severity if it is higher than the current one
RaiseSeverity(c, severity, score) ==
    LET mapped == scoreToSeverity(c, score)
    IN  IF severityToNumber(mapped) > severityToNumber(severity) THEN mapped ELSE severity

---------------------------------------------------------------------------
(* grouping: deduplicateFindings *)

\* `${finding.file}:${finding.ruleId}:${finding.line ?? "null"}:${finding.evidence.slice(0, 50)}`
DedupKey(f) ==
    f.file \o ":" \o f.ruleId \o ":" \o (IF f.line = Null THEN "null" ELSE ToString(f.line))
           \o ":" \o Slice(f.evidence, 50)

RECURSIVE DedupFrom(_, _, _)
DedupFrom(fs, i, seen) ==
    IF i > Len(fs) THEN <<>>
    ELSE IF DedupKey(fs[i]) \in seen THEN DedupFrom(fs, i + 1, seen)
    ELSE <<fs[i]>> \o DedupFrom(fs, i + 1, seen \cup {DedupKey(fs[i])})

deduplicateFindings(fs) == DedupFrom(fs, 1, {})

---------------------------------------------------------------------------
(* grouping: groupFileFindings *)

\* A key list that keeps repeated keys
EveryKey(keys, i, seen) == SubSeq(keys, i, Len(keys))

\* The distinct values of key(s[i]) in the order of their first occurrence
\* (the key order of a JavaScript Map filled in sequence order)
RECURSIVE FirstSeen(_, _, _)
FirstSeen(keys, i, seen) ==
    IF i > Len(keys) THEN <<>>
    ELSE IF keys[i] \in seen THEN FirstSeen(keys, i + 1, seen)
    ELSE <<keys[i]>> \o FirstSeen(keys, i + 1, seen \cup {keys[i]})

OfRole(fs, role) == SelectSeq(fs, LAMBDA f : RuleType(f.ruleId) = role)

OfRule(fs, ruleId) == SelectSeq(fs, LAMBDA f : f.ruleId = ruleId)

Ids(fs) == {fs[i].id : i \in 1..Len(fs)}

\* reduce((best, cand) => candScore > bestScore ? cand : best)
RECURSIVE PickPrimary(_, _, _)
PickPrimary(cands, i, best) ==
    IF i > Len(cands) THEN best
    ELSE PickPrimary(cands, i + 1,
            IF primaryCandidateScore(cands[i]) > primaryCandidateScore(best) THEN cands[i] ELSE best)

\* push every element of more whose id is not yet in acc
RECURSIVE AddUnique(_, _, _)
AddUnique(acc, more, i) ==
    IF i > Len(more) THEN acc
    ELSE AddUnique(IF more[i].id \in Ids(acc) THEN acc ELSE Append(acc, more[i]), more, i + 1)

RECURSIVE RelatedHints(_, _, _, _)
RelatedHints(acc, children, hintFindings, i) ==
    IF i > Len(children) THEN acc
    ELSE RelatedHints(AddUnique(acc, OfRule(hintFindings, children[i]), 1), children, hintFindings, i + 1)

RelatedMetadata(acc, ruleId, metadataFindings) ==
    AddUnique(acc, SelectSeq(metadataFindings, LAMBDA m : ruleId \in SeqToSet(ParentRules(m.ruleId))), 1)

LineOrZero(f) == IF f.line = Null THEN 0 ELSE f.line

Abs(x) == IF x < 0 THEN -x ELSE x

\* Array.prototype.sort is stable: insert each element after the elements that
\* are not farther from the primary
RECURSIVE InsertByDistance(_, _, _)
InsertByDistance(sorted, f, line) ==
    IF sorted = <<>> THEN <<f>>
    ELSE IF Abs(LineOrZero(Head(sorted)) - line) <= Abs(LineOrZero(f) - line)
         THEN <<Head(sorted)>> \o InsertByDistance(Tail(sorted), f, line)
         ELSE <<f>> \o sorted

RECURSIVE SortByDistance(_, _, _)
SortByDistance(fs, i, line) ==
    IF i = 0 THEN <<>>
    ELSE InsertByDistance(SortByDistance(fs, i - 1, line), fs[i], line)

MAX_OTHER_USAGES == 3

\* riskBoost = related.length > 0 ? 1 : 0
RiskBoost(related) == IF Len(related) > 0 THEN 1 ELSE 0

\* the other usages of the rule, the nearest to the primary first, at most three
OtherUsagesNear(others, primary) ==
    Slice(SortByDistance(others, Len(others), LineOrZero(primary)), MAX_OTHER_USAGES)

OtherUsages(ruleUsageFindings, primary) ==
    OtherUsagesNear(SelectSeq(ruleUsageFindings, LAMBDA u : u.id # primary.id), primary)

\* groups.push of a usage cluster
ClusterGroup(c, file, ruleId, primary, related, relatedLimited, score) ==
    [ id |-> <<"group", file, ruleId>>,
      primaryFinding |-> primary,
      relatedFindings |-> relatedLimited,
      file |-> primary.file,
      severity |-> RaiseSeverity(c, boostSeverity(primary.severity, RiskBoost(related)), score),
      riskBoost |-> RiskBoost(related),
      compositeScore |-> score,
      contributingSignals |-> Contributing(c, primary, relatedLimited) ]

\* the composite score of the cluster's primary and its limited related list
ClusterScored(c, file, ruleId, primary, related, relatedLimited) ==
    ClusterGroup(c, file, ruleId, primary, related, relatedLimited,
                 Clamp01(CompositeRaw(c, primary, relatedLimited, primary.file)))

\* the related hints and metadata, then the other usages, limited by the cap
\* A cluster that marks as processed only what its related list keeps
ClusterRelatedKept(c, file, ruleId, ruleUsageFindings, primary, related) ==
    [ group |-> ClusterScored(c, file, ruleId, primary, related,
                    Slice(related \o OtherUsages(ruleUsageFindings, primary), getRelatedCap(c))),
      processed |-> Ids(Slice(related, getRelatedCap(c))) \cup Ids(ruleUsageFindings) ]

ClusterRelated(c, file, ruleId, ruleUsageFindings, primary, related) ==
    [ group |-> ClusterScored(c, file, ruleId, primary, related,
                    Slice(related \o OtherUsages(ruleUsageFindings, primary), getRelatedCap(c))),
      processed |-> Ids(related) \cup Ids(ruleUsageFindings) ]

ClusterOf(c, file, fs, ruleId, ruleUsageFindings) ==
    ClusterRelated(c, file, ruleId, ruleUsageFindings,
        PickPrimary(ruleUsageFindings, 2, ruleUsageFindings[1]),
        RelatedMetadata(RelatedHints(<<>>, ChildRules(ruleId), OfRole(fs, "hint"), 1),
                        ruleId, OfRole(fs, "metadata")))

\* One iteration of the loop over usageByRule: the group of the rule and the
\* ids it marks as processed
UsageCluster(c, file, fs, ruleId) ==
    ClusterOf(c, file, fs, ruleId, OfRule(OfRole(fs, "usage"), ruleId))

\* the groups and processed ids of one cluster ahead of those of the later ones
JoinClusters(cl, rest) ==
    [groups |-> <<cl.group>> \o rest.groups, processed |-> cl.processed \cup rest.processed]

RECURSIVE UsageClusters(_, _, _, _, _)
UsageClusters(c, file, fs, rules, i) ==
    IF i > Len(rules) THEN [groups |-> <<>>, processed |-> {}]
    ELSE JoinClusters(UsageCluster(c, file, fs, rules[i]), UsageClusters(c, file, fs, rules, i + 1))

StandaloneGroup(f, score, signals) ==
    [ id |-> <<"group", f.id>>,
      primaryFinding |-> f,
      relatedFindings |-> <<>>,
      file |-> f.file,
      severity |-> f.severity,
      riskBoost |-> 0,
      compositeScore |-> score,
      contributingSignals |-> signals ]

\* The three loops after the usage clusters.  mode "hint": the standalone hints,
\* with the minimum-evidence floor; "metadata" and "rest": a group per finding
\* not yet processed, without a score.
RECURSIVE Standalone(_, _, _, _, _)
Standalone(c, mode, fs, i, processed) ==
    IF i > Len(fs) THEN [groups |-> <<>>, processed |-> processed]
    ELSE IF fs[i].id \in processed THEN Standalone(c, mode, fs, i + 1, processed)
    ELSE LET rest == Standalone(c, mode, fs, i + 1, processed \cup {fs[i].id})
             comp == Mul(baseWeightForRole(c, "hint"), fs[i].confidence)
         IN  IF mode = "hint" /\ comp < c.thresholds.minGroup THEN rest
             ELSE [ groups |-> <<StandaloneGroup(fs[i],
                                    IF mode = "hint" THEN comp ELSE Null,
                                    IF mode = "hint" THEN <<Signal(c, fs[i], "hint")>> ELSE <<>>)>>
                                \o rest.groups,
                    processed |-> rest.processed ]

\* the groups so far followed by the groups of one more loop
ThenGroups(done, more) == [groups |-> done.groups \o more.groups, processed |-> more.processed]

\* one of the three loops after the usage clusters, run on what the earlier ones left
ThenStandalone(c, mode, fs, done) == ThenGroups(done, Standalone(c, mode, fs, 1, done.processed))

groupFileFindings(c, file, fs) ==
    ThenStandalone(c, "rest", fs,
        ThenStandalone(c, "metadata", OfRole(fs, "metadata"),
            ThenStandalone(c, "hint", OfRole(fs, "hint"),
                UsageClusters(c, file, fs, FirstSeen([i \in 1..Len(OfRole(fs, "usage")) |-> OfRole(fs, "usage")[i].ruleId], 1, {}), 1)))).groups

---------------------------------------------------------------------------
(* grouping: groupFindings *)

RescoreTo(c, g, relatedLimited, score) ==
    [g EXCEPT !.compositeScore = score,
              !.contributingSignals = Contributing(c, g.primaryFinding, relatedLimited),
              !.severity = RaiseSeverity(c, g.severity, score)]

\* Phase 2: the composite score and the severity of one group
Rescore(c, g) ==
    RescoreTo(c, g, Slice(g.relatedFindings, getRelatedCap(c)),
              Clamp01(CompositeRaw(c, g.primaryFinding, Slice(g.relatedFindings, getRelatedCap(c)), g.file)))

RECURSIVE GroupFiles(_, _, _, _)
GroupFiles(c, fs, files, i) ==
    IF i > Len(files) THEN <<>>
    ELSE groupFileFindings(c, files[i], SelectSeq(fs, LAMBDA f : f.file = files[i]))
            \o GroupFiles(c, fs, files, i + 1)

\* Phase 1: the groups of every file, the files in the order of their first finding
GroupByFile(c, deduplicated) == GroupFiles(c, deduplicated, FirstSeen([i \in 1..Len(deduplicated) |-> deduplicated[i].file], 1, {}), 1)

RescoreAll(c, phase1) == [i \in 1..Len(phase1) |-> Rescore(c, phase1[i])]

groupFindings(c, input) == RescoreAll(c, GroupByFile(c, deduplicateFindings(input)))

---------------------------------------------------------------------------
(* The grouping specification: one process that loads a scoring             *)
(* configuration and calls groupFindings on a list of findings.             *)

MaxFindings == 2

GroupRules ==
    {"AI-FP-OPENAI-CLIENT", "AI-FP-OPENAI-IMPORT", "AI-MCP-CLIENT", "AI-MCP-PROTOCOL",
     "AG-LOOP-AUTOEXEC", "CUSTOM-RULE"}

\* Where a finding was matched, with the severity and confidence of the match
Sites ==
    { [file |-> "src/app.py",       line |-> 3,  severity |-> "moderate", confidence |-> 9000],
      [file |-> "src/app.py",       line |-> 10, severity |-> "high",     confidence |-> 8000],
      [file |-> "src/app.py",       line |-> 20, severity |-> "low",      confidence |-> 5000],
      [file |-> "src/tests/run.py", line |-> 3,  severity |-> "critical", confidence |-> 8000] }

\* scanner: id = `${rule.id}-${path}-${line ?? 0}-${match.index}`
FindingId(ruleId, file, line, index) == <<ruleId, file, line, index>>

FindingPool ==
    { [ id |-> FindingId(r, s.file, s.line, 0), ruleId |-> r, file |-> s.file, line |-> s.line,
        severity |-> s.severity, confidence |-> s.confidence, evidence |-> "client = OpenAI()" ]
      : r \in GroupRules, s \in Sites }

\* Two matches of one rule on one line whose evidence differs after 50 characters
RepeatedMatches ==
    { [ id |-> FindingId("AI-FP-OPENAI-CLIENT", "src/app.py", 30, i), ruleId |-> "AI-FP-OPENAI-CLIENT",
        file |-> "src/app.py", line |-> 30, severity |-> "high", confidence |-> 8000,
        evidence |-> "openai.chat.completions.create(model='gpt-4o', mes" \o
                     (IF i = 0 THEN "sages=history)" ELSE "sages=prompt)") ]
      : i \in {0, 70} }

\* Matches in a file whose path holds colons, and a match whose evidence does
ColonMatches ==
    { [ id |-> FindingId("CUSTOM-RULE", "src/a.py", 3, 0), ruleId |-> "CUSTOM-RULE",
        file |-> "src/a.py", line |-> 3, severity |-> "moderate", confidence |-> 7000,
        evidence |-> "CUSTOM-RULE:3:y" ],
      [ id |-> FindingId("CUSTOM-RULE", "src/a.py:CUSTOM-RULE:3", 3, 0), ruleId |-> "CUSTOM-RULE",
        file |-> "src/a.py:CUSTOM-RULE:3", line |-> 3, severity |-> "moderate", confidence |-> 7000,
        evidence |-> "y" ] }

\* A match of a rule in src/app.py
MatchIn(ruleId, line, severity, confidence) ==
    [ id |-> FindingId(ruleId, "src/app.py", line, 0), ruleId |-> ruleId, file |-> "src/app.py",
      line |-> line, severity |-> severity, confidence |-> confidence, evidence |-> "agent.run()" ]

\* Files with more findings than the lists below hold: a loop next to an
\* invocation of a graph, and MCP usages of two rules with the import, the
\* environment variable and the protocol they share
ScenarioLists ==
    { << MatchIn("AG-LOOP-AUTOEXEC", 10, "high", 8000),
         MatchIn("AG-LANGGRAPH-INVOKE", 12, "high", 9000) >>,
      << MatchIn("AG-LOOP-WITH-AGENT", 10, "moderate", 7000),
         MatchIn("AG-LOOP-WITH-AGENT", 30, "moderate", 6000),
         MatchIn("AG-LANGCHAIN-INVOKE", 12, "high", 9000),
         MatchIn("AI-FP-LANGCHAIN-IMPORT", 1, "low", 9000) >>,
      << MatchIn("AI-MCP-IMPORT", 1, "low", 9000),
         MatchIn("AI-MCP-CLIENT", 10, "high", 8000),
         MatchIn("AI-MCP-TOOLS", 20, "high", 8000) >>,
      << MatchIn("AI-MCP-IMPORT", 1, "low", 9000),
         MatchIn("AI-MCP-ENV", 2, "low", 7000),
         MatchIn("AI-MCP-PROTOCOL", 3, "low", 6000),
         MatchIn("AI-MCP-CLIENT", 10, "high", 8000),
         MatchIn("AI-MCP-TOOLS", 20, "high", 8000) >> }

FindingLists ==
    UNION {[1..n -> FindingPool \cup RepeatedMatches \cup ColonMatches] : n \in 0..MaxFindings}
    \cup ScenarioLists

\* Partial<ScoringConfig> values handed to setScoringConfig
ConfigInputs ==
    { <<>>,
      [thresholds |-> [minGroup |-> 4000]],
      [weights |-> [hint |-> 6000], boosts |-> [usagePlusHint |-> 12000]],
      [boosts |-> [usageAndHint |-> SCALE, usageAndMetadata |-> 12000],
       demotions |-> [loopOnlyWithoutInvoke |-> 5000]],
      [caps |-> [perGroupRelated |-> 1]],
      [caps |-> [perGroupRelated |-> 0], demotions |-> [loopWithoutInvoke |-> 5000]] }


\* No call of setScoringConfig is on record
NoHistory ==
    /\ prevCfg = <<>>
    /\ lastCfg = <<>>

\* generateRedTeamingPlans has not been called
PlansOff ==
    /\ ppc = "off"
    /\ redTeamingPlans = <<>>

\* enrichGraphWithCallEdges has not been called
EnrichIdle ==
    /\ filesToProcess = 0
    /\ fi = 0
    /\ edgesToProcess = 0
    /\ ci = 0
    /\ callEdgeCount = 0
    /\ edgesAddedThisFile = 0
    /\ extractCalls = 0

EnrichOff ==
    /\ epc = "off"
    /\ filesWithFindings = 0
    /\ extractor = "none"
    /\ EnrichIdle

\* No search of the graph has begun
SearchIdle ==
    /\ propagated = FALSE
    /\ edgeWeights = <<>>
    /\ pathScores = <<>>
    /\ highConfNodes = <<>>
    /\ seed = 0
    /\ pstack = <<>>
    /\ pvisited = {}
    /\ sourceNodes = <<>>
    /\ sinkNodes = <<>>
    /\ si = 0
    /\ ki = 0
    /\ sink = ""
    /\ stack = <<>>
    /\ visited = {}
    /\ path = <<>>
    /\ transforms = <<>>
    /\ riskyPaths = <<>>
    /\ result = <<>>

InitGroup ==
    /\ findings \in FindingLists
    /\ CURRENT = DEFAULT_CONFIG
    /\ groups = <<>>
    /\ gpc = "ready"
    /\ load = "pending"
    /\ graph = [nodes |-> <<>>, edges |-> <<>>]
    /\ rpc = "off"
    /\ SearchIdle
    /\ EnrichOff
    /\ PlansOff
    /\ NoHistory

\* scoring.json was fetched (resp.ok) and handed to setScoringConfig
SetScoringConfig ==
    /\ gpc = "ready"
    /\ \E cfg \in ConfigInputs : CURRENT' = setScoringConfig(cfg)
    /\ load' = "ok"
    /\ UNCHANGED <<findings, groups, gpc>>
    /\ UNCHANGED rvars
    /\ UNCHANGED <<enrichVars, planVars, histVars>>

\* The fetch of scoring.json threw or its response was not OK: the catch
\* block is empty and setScoringConfig is not called
LoadFails ==
    /\ gpc = "ready"
    /\ load = "pending"
    /\ load' = "failed"
    /\ UNCHANGED <<findings, CURRENT, groups, gpc>>
    /\ UNCHANGED rvars
    /\ UNCHANGED <<enrichVars, planVars, histVars>>

GroupFindings ==
    /\ gpc = "ready"
    /\ groups' = groupFindings(CURRENT, findings)
    /\ gpc' = "grouped"
    /\ UNCHANGED <<findings, CURRENT, load>>
    /\ UNCHANGED rvars
    /\ UNCHANGED <<enrichVars, planVars, histVars>>

\* The next scan of the same process: CURRENT is module state and stays
NextScan ==
    /\ gpc = "grouped"
    /\ groups' = <<>>
    /\ gpc' = "ready"
    /\ load' = "pending"
    /\ UNCHANGED <<findings, CURRENT>>
    /\ UNCHANGED rvars
    /\ UNCHANGED <<enrichVars, planVars, histVars>>

NextGroup == SetScoringConfig \/ LoadFails \/ GroupFindings \/ NextScan

SpecGroup == InitGroup /\ [][NextGroup]_vars

---------------------------------------------------------------------------
(* reachability: graphs *)

\* nodeIdForFinding: `${f.ruleId}|${f.file}|${f.line ?? "null"}`
NodeId(ruleId, file, line) ==
    ruleId \o "|" \o file \o "|" \o (IF line = Null THEN "null" ELSE ToString(line))

\* A node as upsertNodeForFinding creates it: the label is the rule id
FindingNode(ruleId, file, line, confidence, compositeScore) ==
    [ id |-> NodeId(ruleId, file, line), kind |-> "finding", label |-> ruleId, file |-> file,
      line |-> line, confidence |-> confidence, compositeScore |-> compositeScore ]

\* A "related" edge as the coarse build creates it, with a weight of its own
RelatedEdge(from, to, weight) ==
    [ id |-> "rel|" \o from \o "->" \o to, kind |-> "related", from |-> from, to |-> to,
      weight |-> weight, label |-> "related" ]

NodeIds(g) == {g.nodes[i].id : i \in 1..Len(g.nodes)}

\* nodesById.get(id): the map is filled in node order, a later node of the
\* same id replaces an earlier one
NodeById(g, id) ==
    g.nodes[CHOOSE i \in 1..Len(g.nodes) :
                /\ g.nodes[i].id = id
                /\ \A j \in (i + 1)..Len(g.nodes) : g.nodes[j].id # id]

\* forwardAdj.get(id) || [] and adjacency.get(id) || []: the edges leaving id, in edge order
EdgesFrom(g, id) == SelectSeq(g.edges, LAMBDA e : e.from = id)

\* reverseAdj.get(id) || []
\* node.compositeScore ?? node.confidence ?? dflt
NodeConf(n, dflt) ==
    IF n.compositeScore # Null THEN n.compositeScore
    ELSE IF n.confidence # Null THEN n.confidence
    ELSE dflt

\* edge.weight ?? 0.5
EdgeWeight(e) == IF e.weight = Null THEN SCALE \div 2 ELSE e.weight

\* Math.pow(base, n) for an integer n >= 0
RECURSIVE Pow(_, _)
Pow(base, n) == IF n = 0 THEN SCALE ELSE Mul(Pow(base, n - 1), base)

\* Math.sqrt(a * b) for a and b in [0,1], rounded down to the grid; the root
\* lies between the two numbers
SqrtOfProduct(a, b) ==
    CHOOSE r \in Min(a, b)..Max(a, b) : r * r <= a * b /\ a * b < (r + 1) * (r + 1)

\* Array.prototype.sort with the comparator (a, b) => key(b) - key(a): stable,
\* by descending key; keys[i] is the key of s[i]
SortDescending(s, keys) ==
    LET before(i) == {j \in 1..Len(s) : \/ keys[j] > keys[i]
                                        \/ keys[j] = keys[i] /\ j < i}
    IN  [k \in 1..Len(s) |-> s[CHOOSE i \in 1..Len(s) : Cardinality(before(i)) = k - 1]]

\* sort((a, b) => conf(b) - conf(a)), conf = compositeScore ?? confidence ?? 0
SortByConf(ns) == SortDescending(ns, [i \in 1..Len(ns) |-> NodeConf(ns[i], 0)])

---------------------------------------------------------------------------
(* reachability: the nodes and edges the graphs of the model are made of *)

PoolNodes ==
    << FindingNode("AI-MCP-ENV", "src/config.py", 3, (8 * SCALE) \div 10, Null),
       FindingNode("AG-LANGGRAPH-INVOKE", "src/app.py", 10, (6 * SCALE) \div 10, (9 * SCALE) \div 10),
       FindingNode("AG-TOOL-CLASS", "src/app.py", 20, (7 * SCALE) \div 10, Null),
       FindingNode("AG-STREAMLIT-INPUT", "src/db.py", 5, (5 * SCALE) \div 10, Null) >>

\* A chain of eight nodes closed into a ring: longer than either depth limit
RingNodes ==
    << FindingNode("AI-MCP-ENV", "src/config.py", 101, (9 * SCALE) \div 10, Null),
       FindingNode("AG-LANGGRAPH-INVOKE", "src/app.py", 102, (9 * SCALE) \div 10, Null),
       FindingNode("AG-LANGGRAPH-INVOKE", "src/app.py", 103, (9 * SCALE) \div 10, Null),
       FindingNode("AG-LANGGRAPH-INVOKE", "src/app.py", 104, (9 * SCALE) \div 10, Null),
       FindingNode("AG-LANGGRAPH-INVOKE", "src/app.py", 105, (9 * SCALE) \div 10, Null),
       FindingNode("AG-LANGGRAPH-INVOKE", "src/app.py", 106, (9 * SCALE) \div 10, Null),
       FindingNode("AG-TOOL-CLASS", "src/app.py", 107, (9 * SCALE) \div 10, Null),
       FindingNode("AG-TOOL-CLASS", "src/app.py", 108, (9 * SCALE) \div 10, Null) >>

FanSources == 8

FanSinks == 7

\* Input widgets, two agent invocations and tool classes: more pairs of a
\* source and a sink than detectRiskyPaths returns paths
FanNodes ==
    [i \in 1..FanSources |->
        FindingNode("AG-STREAMLIT-INPUT", "src/ui.py", 200 + i, ((50 + 5 * i) * SCALE) \div 100, Null)]
    \o << FindingNode("AG-LANGGRAPH-INVOKE", "src/app.py", 298, (6 * SCALE) \div 10, Null),
          FindingNode("AG-LANGGRAPH-INVOKE", "src/app.py", 299, (9 * SCALE) \div 10, Null) >>
    \o [k \in 1..FanSinks |->
        FindingNode("AG-TOOL-CLASS", "src/tools.py", 300 + k, ((60 + 5 * k) * SCALE) \div 100, Null)]

\* An agent invocation found in a file of a tools directory
ToolsDirNode == FindingNode("AG-LANGGRAPH-INVOKE", "src/tools/agent.py", 12, (9 * SCALE) \div 10, Null)

\* Targets of call edges that are no node: the callee's name
AllNodes == SeqToSet(PoolNodes) \cup SeqToSet(RingNodes) \cup SeqToSet(FanNodes) \cup {ToolsDirNode}

AllTargets == {n.id : n \in AllNodes} \cup {"subprocess.run", "openai", "run"}

---------------------------------------------------------------------------
(* reachability: the role predicates of detectRiskyPaths.  The tests that
   read only a node's own text, or only an edge's target, are evaluated
   once per node and per target (NodeFacts, TargetFacts). *)

\* /open\(.*['"']<mode>/ : "open(", any characters, a quote, the mode letter
OpenWithMode(s, mode) ==
    \E i \in 1..Len(s) : \E j \in (i + 5)..(Len(s) - 1) :
        /\ SubSeq(s, i, i + 4) = "open("
        /\ SubSeq(s, j, j) \in {"'", "\""}
        /\ SubSeq(s, j + 1, j + 1) = mode

\* nodeId.includes("ag-streamlit-input") || label.includes("ag-streamlit-input")
IsStreamlitInput(node) ==
    \/ Includes(ToLower(node.id), "ag-streamlit-input")
    \/ Includes(ToLower(node.label), "ag-streamlit-input")

\* isToolNode of isSourceNode
IsToolNode(node) ==
    \/ IncludesAny(ToLower(node.id), {"tool", "uses_tool", "ag-tool", "ag-function"})
    \/ IncludesAny(ToLower(node.label), {"ag-tool", "ag-function"})

\* An edge target that names an input API
IsInputTarget(to) ==
    IncludesAny(ToLower(to),
        {"input", "argv", "args", "stdin", "readline", "argparse", "click", "dotenv",
         "process.env", "getenv", "readfile", "read(", "open(", "streamlit", "st."})

\* An edge target that names an HTTP request
IsRequestTarget(to) ==
    IncludesAny(ToLower(to), {"request", "fetch", "http", "body", "query", "params", "headers"})

\* The node a tool receives input from looks like an input
IsToolInputOrigin(sourceNode) ==
    IncludesAny(ToLower(sourceNode.label) \o ToLower(sourceNode.id),
        {"input", "argv", "args", "stdin", "request", "fetch", "http", "body", "query",
         "params", "env", "config", "readfile", "read(", "streamlit", "st."})

\* The tests of isSourceNode on label + file + nodeId; an absent file is ""
IsSourceText(node) ==
    LET text == ToLower(node.label) \o ToLower(node.file) \o ToLower(node.id)
    IN  \/ IncludesAny(text,
              {"input", "argv", "args", "stdin", "readline",
               "request.body", "request.query", "request.params", "request.headers",
               "req.body", "req.query", "req.params", "req.headers"})
        \/ IncludesAny(text,
              {"st.text_input", "st.chat_input", "st.text_area", "st.number_input",
               "st.selectbox", "st.multiselect", "st.slider", "st.file_uploader", "st.text",
               "st.write"})
        \/ /\ \/ IncludesAny(text, {"readfile", "read(", ".read(", "fs.read"})
              \/ OpenWithMode(text, "r")
           /\ ~Includes(text, "write")
        \/ IncludesAny(text, {"process.env", "getenv", "os.getenv", "dotenv", "config", "settings"})
        \/ IncludesAny(text, {"argparse", "click", "sys.argv", "process.argv"})

\* The node looks like an HTTP handler
IsHttpNode(node) ==
    \/ IncludesAny(ToLower(node.label), {"request", "fetch", "http.", "url", "query", "body", "params"})
    \/ IncludesAny(ToLower(node.file), {"http", "api", "endpoint"})

\* An edge target that is an incoming HTTP API, not an outgoing post or put
IsIncomingHttpTarget(to) ==
    /\ IncludesAny(ToLower(to), {"http", "request", "fetch", "api"})
    /\ ~IncludesAny(ToLower(to), {"post", "put", "send", "publish"})

isTransformNode(node) ==
    LET label  == ToLower(node.label)
        ruleId == ToLower(node.id)
        text   == label \o ruleId
    IN  IF \/ IncludesAny(ruleId, {"ag-tool", "ag-function", "tool-class", "tool-list",
                                   "tool-decorator", "uses_tool"})
           \/ IncludesAny(label, {"ag-tool", "ag-function"})
        THEN FALSE
        ELSE \/ IncludesAny(text, {"chat.completions", "completions.create"})
             \/ IncludesAny(text, {"invoke", "stream", "run"}) /\ ~Includes(ruleId, "tool")
             \/ IncludesAny(ruleId, {"langgraph", "langchain", "crewai", "autogen"})
             \/ IncludesAny(text, {"agent", "graph", "chain"}) /\ ~Includes(ruleId, "tool")
             \/ IncludesAny(text, {"rag", "retrieval", "vector", "embedding"})
             \/ IncludesAny(ruleId, {"uses_model", "uses_endpoint", "openai", "anthropic", "model"})

\* An edge target that names a tool call; it counts on a uses_tool edge
IsToolCallTarget(to) ==
    IncludesAny(ToLower(to), {"tool", "execute", "run", "invoke", "call"})

\* An edge target that names a filesystem, network or database operation
IsEffectTarget(to) ==
    LET target == ToLower(to)
    IN  \/ IncludesAny(target, {"writefile", "writetext", "open", "write", "system", "exec",
                                "shell", "subprocess"})
        \/ IncludesAny(target, {"fetch", "post", "put", "send", "publish", "smtp", "http"})
        \/ IncludesAny(target, {"execute", "query", "commit", "insert", "update", "delete",
                                "db", "database"})

\* The tests of isSinkNode on the node's label and id
IsSinkText(node) ==
    LET label  == ToLower(node.label)
        ruleId == ToLower(node.id)
        text   == label \o ruleId
    IN  \/ IncludesAny(text, {"writefile", "writetext", "os.system", "subprocess", "exec", "shell"})
        \/ OpenWithMode(text, "w")
        \/ IncludesAny(ruleId, {"uses_tool", "tool", "execute", "run"})
        \/ IncludesAny(label, {"fetch", "request.post", "request.put", "http.post", "smtp",
                               "send", "publish"})
        \/ IncludesAny(text, {"execute", "query", "commit", "insert", "update", "delete", "db.",
                              "database"})
        \/ IncludesAny(text, {"system", "exec", "spawn", "shell=true", "subprocess"})

NodeFacts ==
    [n \in AllNodes |->
        [ streamlit |-> IsStreamlitInput(n), tool |-> IsToolNode(n),
          origin |-> IsToolInputOrigin(n), sourceText |-> IsSourceText(n),
          http |-> IsHttpNode(n), transform |-> isTransformNode(n),
          sinkText |-> IsSinkText(n) ]]

TargetFacts ==
    [t \in AllTargets |->
        [ input |-> IsInputTarget(t), request |-> IsRequestTarget(t),
          incomingHttp |-> IsIncomingHttpTarget(t), toolCall |-> IsToolCallTarget(t),
          effect |-> IsEffectTarget(t) ]]

isSourceNode(g, node) ==
    LET edgesFromNode == EdgesFrom(g, node.id)
        incomingEdges == SelectSeq(g.edges, LAMBDA e : e.to = node.id)
    IN  \/ NodeFacts[node].streamlit
        \/ \E i \in 1..Len(edgesFromNode) :
             \/ TargetFacts[edgesFromNode[i].to].input
             \/ TargetFacts[edgesFromNode[i].to].request /\ edgesFromNode[i].kind # "uses_tool"
        \/ /\ NodeFacts[node].tool
           /\ \E i \in 1..Len(incomingEdges) :
                /\ incomingEdges[i].from \in NodeIds(g)
                /\ NodeFacts[NodeById(g, incomingEdges[i].from)].origin
        \/ NodeFacts[node].sourceText
        \/ /\ NodeFacts[node].http
           /\ \E i \in 1..Len(edgesFromNode) : TargetFacts[edgesFromNode[i].to].incomingHttp

isSinkNode(g, node) ==
    LET edgesFromNode == EdgesFrom(g, node.id)
    IN  \/ \E i \in 1..Len(edgesFromNode) :
             \/ TargetFacts[edgesFromNode[i].to].toolCall /\ edgesFromNode[i].kind = "uses_tool"
             \/ TargetFacts[edgesFromNode[i].to].effect
        \/ \E i \in 1..Len(edgesFromNode) : edgesFromNode[i].kind = "uses_tool"
        \/ NodeFacts[node].sinkText

MAX_SOURCE_NODES == 200

MAX_SINK_NODES == 200

\* allSourceNodes sorted by confidence and capped, as node ids
SourceNodes(g) ==
    LET all == SelectSeq(g.nodes, LAMBDA n : isSourceNode(g, n))
        top == Slice(SortByConf(all), MAX_SOURCE_NODES)
    IN  [i \in 1..Len(top) |-> top[i].id]

SinkNodes(g) ==
    LET all == SelectSeq(g.nodes, LAMBDA n : isSinkNode(g, n))
        top == Slice(SortByConf(all), MAX_SINK_NODES)
    IN  [i \in 1..Len(top) |-> top[i].id]

---------------------------------------------------------------------------
(* reachability: propagateConfidence *)

MAX_NODES_FOR_PROPAGATION == 100

DECAY_RATE == (85 * SCALE) \div 100

PROPAGATION_MAX_PATH_LENGTH == 5

\* The base weight of an edge: the geometric mean of its end points'
\* confidences (or the one end point that is a node, or the edge's own
\* weight), boosted by kind and capped at 1
BaseWeight(g, e) ==
    LET hasFrom == e.from \in NodeIds(g)
        hasTo   == e.to \in NodeIds(g)
        base == IF hasFrom /\ hasTo
                THEN SqrtOfProduct(NodeConf(NodeById(g, e.from), SCALE \div 2),
                                   NodeConf(NodeById(g, e.to), SCALE \div 2))
                ELSE IF hasFrom THEN NodeConf(NodeById(g, e.from), SCALE \div 2)
                ELSE IF hasTo THEN NodeConf(NodeById(g, e.to), SCALE \div 2)
                ELSE EdgeWeight(e)
        kindBoost == IF e.kind \in {"uses_model", "uses_tool"} THEN (115 * SCALE) \div 100
                     ELSE IF e.kind = "uses_endpoint" THEN (120 * SCALE) \div 100
                     ELSE SCALE
    IN  Min(SCALE, Mul(base, kindBoost))

\* edgeWeights: edge id -> base weight; a later edge of the same id overwrites
BaseWeights(g) ==
    [id \in {g.edges[i].id : i \in 1..Len(g.edges)} |->
        BaseWeight(g, g.edges[CHOOSE i \in 1..Len(g.edges) :
                                 /\ g.edges[i].id = id
                                 /\ \A j \in (i + 1)..Len(g.edges) : g.edges[j].id # id])]

\* highConfNodes: nodes of confidence >= 0.7, best first, capped
HighConfNodes(g) ==
    LET high == SelectSeq(g.nodes, LAMBDA n : NodeConf(n, 0) >= (7 * SCALE) \div 10)
        top  == Slice(SortByConf(high), MAX_NODES_FOR_PROPAGATION)
    IN  [i \in 1..Len(top) |-> top[i].id]

\* edgeWeight * Math.pow(DECAY_RATE, pathLength)
PathConfidence(weights, e, pathLength) == Mul(weights[e.id], Pow(DECAY_RATE, pathLength))

\* A propagation that returns the edges last first
ReversedEdges(g, weights, scores) ==
    [i \in 1..Len(g.edges) |-> g.edges[Len(g.edges) + 1 - i]]

\* A propagation that returns the edges as it got them
KeepEdges(g, weights, scores) == g.edges

\* The final weight of an edge: 0.6 base + 0.4 best path score, clamped
UpdatedEdges(g, weights, scores) ==
    [i \in 1..Len(g.edges) |->
        [g.edges[i] EXCEPT !.weight =
            Max(0, Min(SCALE, (weights[g.edges[i].id] * 6) \div 10 + (scores[g.edges[i].id] * 4) \div 10))]]

---------------------------------------------------------------------------
(* reachability: detectRiskyPaths *)

MAX_PATH_LENGTH == 6

\* A search that follows every edge
NoThreshold == 0 * SCALE

MIN_EDGE_WEIGHT == (3 * SCALE) \div 10

MAX_RISKY_PATHS == 50

RECURSIVE ConfProduct(_, _, _)
ConfProduct(g, ids, i) ==
    IF i = 0 THEN SCALE
    ELSE Mul(ConfProduct(g, ids, i - 1), NodeConf(NodeById(g, ids[i]), SCALE \div 2))

\* A decay of 0.9 per node instead of per hop
PathConfPerNode(g, ids) ==
    Mul(ConfProduct(g, ids, Len(ids)), Pow((9 * SCALE) \div 10, Len(ids)))

\* A confidence without the decay for the length of the path
PathConfNoDecay(g, ids) == ConfProduct(g, ids, Len(ids))

\* pathConf: the product of the node confidences, times 0.9^(path.length - 1)
PathConf(g, ids) ==
    Mul(ConfProduct(g, ids, Len(ids)), Pow((9 * SCALE) \div 10, Len(ids) - 1))

RiskLevel(pathConf) ==
    IF pathConf >= (8 * SCALE) \div 10 THEN "critical"
    ELSE IF pathConf >= (6 * SCALE) \div 10 THEN "high"
    ELSE IF pathConf >= (4 * SCALE) \div 10 THEN "moderate"
    ELSE "low"

\* The record pushed on riskyPaths; nodes are held by id
RiskyPath(g, ids, trs) ==
    [ source |-> ids[1], transforms |-> trs, sink |-> ids[Len(ids)], path |-> ids,
      confidence |-> Max(0, Min(SCALE, PathConf(g, ids))),
      riskLevel |-> RiskLevel(PathConf(g, ids)) ]

\* `${path.source.id}→${path.sink.id}`
PathKey(p) == p.source \o "→" \o p.sink

\* A result that holds every path found
EveryPath(ps) == ps

\* uniquePaths: per source->sink key the first path of the highest confidence,
\* at the position of the key's first path
UniquePaths(ps) ==
    LET firstOfKey(i) == \A j \in 1..(i - 1) : PathKey(ps[j]) # PathKey(ps[i])
        bestOfKey(i) ==
            CHOOSE k \in 1..Len(ps) :
                /\ PathKey(ps[k]) = PathKey(ps[i])
                /\ \A j \in 1..Len(ps) :
                     PathKey(ps[j]) = PathKey(ps[i]) =>
                        \/ ps[j].confidence < ps[k].confidence
                        \/ ps[j].confidence = ps[k].confidence /\ k <= j
        firsts == SelectSeq([i \in 1..Len(ps) |-> i], firstOfKey)
    IN  [k \in 1..Len(firsts) |-> ps[bestOfKey(firsts[k])]]

\* The value detectRiskyPaths returns
TopRiskyPaths(ps) ==
    LET unique == UniquePaths(ps)
    IN  Slice(SortDescending(unique, [i \in 1..Len(unique) |-> unique[i].confidence]), MAX_RISKY_PATHS)

---------------------------------------------------------------------------
(* The reachability specification: a graph is built, propagateConfidence
   may rewrite its edge weights, and detectRiskyPaths searches it.  Both
   depth-first searches advance one edge at a time. *)

MaxEdges == 2

\* The calls the engine's stack holds before it overflows; neither search
\* comes near it while its guards are in place
MaxCallDepth == 9

RingGraph ==
    [ nodes |-> RingNodes,
      edges |-> [i \in 1..Len(RingNodes) |->
                    RelatedEdge(RingNodes[i].id, RingNodes[(i % Len(RingNodes)) + 1].id, Null)] ]

\* Self-loops, as two findings of one rule on one line make them
SelfLoopGraph ==
    [ nodes |-> SubSeq(PoolNodes, 1, 3),
      edges |-> << RelatedEdge(PoolNodes[1].id, PoolNodes[1].id, SCALE \div 2),
                   RelatedEdge(PoolNodes[1].id, PoolNodes[2].id, SCALE \div 2),
                   RelatedEdge(PoolNodes[2].id, PoolNodes[2].id, SCALE \div 2),
                   RelatedEdge(PoolNodes[2].id, PoolNodes[3].id, SCALE \div 2) >> ]

\* A call edge as enrichGraphWithCallEdges adds it: its target is a callee's name
CallEdge(from, to, weight) ==
    [ id |-> "call|" \o from \o "->" \o to, kind |-> "calls", from |-> from, to |-> to,
      weight |-> weight, label |-> to ]

CallGraph ==
    [ nodes |-> SubSeq(PoolNodes, 1, 2),
      edges |-> << RelatedEdge(PoolNodes[1].id, PoolNodes[2].id, SCALE \div 2),
                   CallEdge(PoolNodes[1].id, "subprocess.run", (9 * SCALE) \div 10) >> ]

\* Edges of the boosted kinds as the enrichment adds them (an import of
\* openai, a call of run), an endpoint edge between two nodes that has no
\* weight, and an edge neither end of which is a node
KindGraph ==
    [ nodes |-> SubSeq(RingNodes, 1, 2),
      edges |-> << [CallEdge(RingNodes[1].id, RingNodes[2].id, Null) EXCEPT !.kind = "uses_endpoint"],
                   [CallEdge(RingNodes[1].id, "openai", (9 * SCALE) \div 10) EXCEPT !.kind = "uses_model"],
                   [CallEdge(RingNodes[2].id, "run", (7 * SCALE) \div 10) EXCEPT !.kind = "uses_tool"],
                   [CallEdge("caller", "openai", SCALE) EXCEPT !.kind = "uses_model"] >> ]

\* Every input widget feeds both invocations and both invocations call every tool
FanGraph ==
    [ nodes |-> FanNodes,
      edges |-> [e \in 1..(2 * FanSources) |->
                    RelatedEdge(FanNodes[((e - 1) \div 2) + 1].id,
                                FanNodes[FanSources + 1 + ((e - 1) % 2)].id, SCALE \div 2)]
                \o [e \in 1..(2 * FanSinks) |->
                    RelatedEdge(FanNodes[FanSources + 1 + ((e - 1) \div FanSinks)].id,
                                FanNodes[FanSources + 2 + (((e - 1) % FanSinks) + 1)].id, SCALE \div 2)] ]

\* An input widget feeds the invocation in the tools directory, which calls a tool
ToolsDirGraph ==
    [ nodes |-> << FanNodes[FanSources], ToolsDirNode, FanNodes[Len(FanNodes)] >>,
      edges |-> << RelatedEdge(FanNodes[FanSources].id, ToolsDirNode.id, SCALE \div 2),
                   RelatedEdge(ToolsDirNode.id, FanNodes[Len(FanNodes)].id, SCALE \div 2) >> ]

\* The subsequence of s at the positions in keep
RECURSIVE SubsequenceAt(_, _, _)
SubsequenceAt(s, keep, i) ==
    IF i = 0 THEN <<>>
    ELSE IF i \in keep THEN Append(SubsequenceAt(s, keep, i - 1), s[i])
    ELSE SubsequenceAt(s, keep, i - 1)

\* The edges over the pairs of a set, in the order of the pairs
RECURSIVE EdgeList(_, _)
EdgeList(ids, pairs) ==
    IF pairs = {} THEN <<>>
    ELSE LET p == CHOOSE q \in pairs :
                     \A r \in pairs : \/ q[1] < r[1]
                                      \/ q[1] = r[1] /\ q[2] <= r[2]
         IN  <<RelatedEdge(ids[p[1]], ids[p[2]], SCALE \div 2)>> \o EdgeList(ids, pairs \ {p})

\* The subsets of S of at most n elements
RECURSIVE AtMost(_, _)
AtMost(S, n) ==
    IF n = 0 THEN {{}}
    ELSE LET smaller == AtMost(S, n - 1)
         IN  smaller \cup {p \cup {e} : p \in smaller, e \in S}

\* Any of the pool's nodes and at most MaxEdges directed edges between two
\* different ones, cycles included
PoolGraphs ==
    UNION { { [ nodes |-> SubsequenceAt(PoolNodes, keep, Len(PoolNodes)),
                edges |-> EdgeList([i \in 1..Len(PoolNodes) |-> PoolNodes[i].id], pairs) ] :
              pairs \in AtMost({p \in keep \X keep : p[1] # p[2]}, MaxEdges) } :
            keep \in SUBSET (1..Len(PoolNodes)) }

\* Two ways from the first node to the third, one over an edge too light to follow
WeakEdgeGraph ==
    [ nodes |-> PoolNodes,
      edges |-> << RelatedEdge(PoolNodes[1].id, PoolNodes[2].id, (2 * SCALE) \div 10),
                   RelatedEdge(PoolNodes[2].id, PoolNodes[3].id, SCALE \div 2),
                   RelatedEdge(PoolNodes[1].id, PoolNodes[4].id, (3 * SCALE) \div 10),
                   RelatedEdge(PoolNodes[4].id, PoolNodes[3].id, Null) >> ]

\* Two ways from the first node to the third, both open
DiamondGraph ==
    [ nodes |-> PoolNodes,
      edges |-> << RelatedEdge(PoolNodes[1].id, PoolNodes[2].id, SCALE \div 2),
                   RelatedEdge(PoolNodes[2].id, PoolNodes[3].id, SCALE \div 2),
                   RelatedEdge(PoolNodes[1].id, PoolNodes[4].id, SCALE \div 2),
                   RelatedEdge(PoolNodes[4].id, PoolNodes[3].id, SCALE \div 2) >> ]

Graphs == PoolGraphs \cup {RingGraph, SelfLoopGraph, CallGraph, KindGraph, ToolsDirGraph, WeakEdgeGraph, DiamondGraph}

InitReach ==
    /\ findings = <<>>
    /\ CURRENT = DEFAULT_CONFIG
    /\ groups = <<>>
    /\ gpc = "off"
    /\ load = "off"
    /\ graph \in Graphs
    /\ rpc = "idle"
    /\ SearchIdle
    /\ EnrichOff
    /\ PlansOff
    /\ NoHistory

\* propagateConfidence is called: base weights, seeds
StartPropagate ==
    /\ rpc = "idle"
    /\ ~propagated
    /\ rpc' = "propagate"
    /\ edgeWeights' = BaseWeights(graph)
    /\ pathScores' = [id \in DOMAIN BaseWeights(graph) |-> 0]
    /\ highConfNodes' = HighConfNodes(graph)
    /\ seed' = 1
    /\ pstack' = <<>>
    /\ pvisited' = {}
    /\ UNCHANGED <<graph, propagated>>
    /\ UNCHANGED riskVars
    /\ UNCHANGED gvars
    /\ UNCHANGED <<enrichVars, planVars, histVars>>

\* findPaths(nodeId, new Set(), 0, 0) for the next seed
PropSeed ==
    /\ rpc = "propagate"
    /\ pstack = <<>>
    /\ seed <= Len(highConfNodes)
    /\ pstack' = <<[start |-> highConfNodes[seed], pathLength |-> 0, depth |-> 0, ei |-> 1]>>
    /\ pvisited' = {highConfNodes[seed]}
    /\ seed' = seed + 1
    /\ UNCHANGED <<graph, rpc, propagated, edgeWeights, pathScores, highConfNodes>>
    /\ UNCHANGED riskVars
    /\ UNCHANGED gvars
    /\ UNCHANGED <<enrichVars, planVars, histVars>>

PropFrame == pstack[Len(pstack)]

PropEdgeAt == EdgesFrom(graph, PropFrame.start)[PropFrame.ei]

PropScored ==
    [pathScores EXCEPT ![PropEdgeAt.id] =
        Max(@, PathConfidence(edgeWeights, PropEdgeAt, PropFrame.pathLength))]

PropAdvanced == [pstack EXCEPT ![Len(pstack)].ei = @ + 1]

\* The callee of findPaths passes its guard
PropEnters == /\ PropEdgeAt.to \notin pvisited
              /\ PropFrame.depth + 1 <= PROPAGATION_MAX_PATH_LENGTH

\* One edge of the loop is scored and followed
PropFollowEdge ==
    /\ rpc = "propagate"
    /\ pstack # <<>>
    /\ PropFrame.ei <= Len(EdgesFrom(graph, PropFrame.start))
    /\ PropEnters
    /\ Len(pstack) < MaxCallDepth
    /\ pathScores' = PropScored
    /\ pstack' = Append(PropAdvanced,
                        [start |-> PropEdgeAt.to, pathLength |-> PropFrame.pathLength + 1,
                         depth |-> PropFrame.depth + 1, ei |-> 1])
    /\ pvisited' = pvisited \cup {PropEdgeAt.to}
    /\ UNCHANGED <<graph, rpc, propagated, edgeWeights, highConfNodes, seed>>
    /\ UNCHANGED riskVars
    /\ UNCHANGED gvars
    /\ UNCHANGED <<enrichVars, planVars, histVars>>

\* One edge of the loop is scored and not followed: its target is on the
\* current path, or the callee returns at once for depth
PropScoreEdge ==
    /\ rpc = "propagate"
    /\ pstack # <<>>
    /\ PropFrame.ei <= Len(EdgesFrom(graph, PropFrame.start))
    /\ ~PropEnters
    /\ pathScores' = PropScored
    /\ pstack' = PropAdvanced
    /\ UNCHANGED <<graph, rpc, propagated, edgeWeights, highConfNodes, seed, pvisited>>
    /\ UNCHANGED riskVars
    /\ UNCHANGED gvars
    /\ UNCHANGED <<enrichVars, planVars, histVars>>

\* The loop of findPaths is over: visited.delete(start), return
PropReturn ==
    /\ rpc = "propagate"
    /\ pstack # <<>>
    /\ PropFrame.ei > Len(EdgesFrom(graph, PropFrame.start))
    /\ pvisited' = pvisited \ {PropFrame.start}
    /\ pstack' = SubSeq(pstack, 1, Len(pstack) - 1)
    /\ UNCHANGED <<graph, rpc, propagated, edgeWeights, pathScores, highConfNodes, seed>>
    /\ UNCHANGED riskVars
    /\ UNCHANGED gvars
    /\ UNCHANGED <<enrichVars, planVars, histVars>>

\* All seeds searched: the edges get their final weights
FinishPropagate ==
    /\ rpc = "propagate"
    /\ pstack = <<>>
    /\ seed > Len(highConfNodes)
    /\ graph' = [ nodes |-> graph.nodes,
                  edges |-> UpdatedEdges(graph, edgeWeights, pathScores),
                  stats |-> [ nodeCount |-> Len(graph.nodes),
                              edgeCount |-> Len(UpdatedEdges(graph, edgeWeights, pathScores)) ] ]
    /\ rpc' = "idle"
    /\ propagated' = TRUE
    /\ UNCHANGED propVars
    /\ UNCHANGED riskVars
    /\ UNCHANGED gvars
    /\ UNCHANGED <<enrichVars, planVars, histVars>>

\* detectRiskyPaths is called: the nodes are classified, sorted and capped
StartDetect ==
    /\ rpc = "idle"
    /\ rpc' = "detect"
    /\ sourceNodes' = SourceNodes(graph)
    /\ sinkNodes' = SinkNodes(graph)
    /\ si' = 1
    /\ ki' = 1
    /\ sink' = ""
    /\ stack' = <<>>
    /\ visited' = {}
    /\ path' = <<>>
    /\ transforms' = <<>>
    /\ riskyPaths' = <<>>
    /\ result' = <<>>
    /\ UNCHANGED <<graph, propagated>>
    /\ UNCHANGED propVars
    /\ UNCHANGED gvars
    /\ UNCHANGED <<enrichVars, planVars, histVars>>

\* The loops over sourceNodes and sinkNodes have a pair left
PairLeft == si <= Len(sourceNodes) /\ ki <= Len(sinkNodes)

NextSi == IF ki < Len(sinkNodes) THEN si ELSE si + 1

NextKi == IF ki < Len(sinkNodes) THEN ki + 1 ELSE 1

\* source.id === sink.id: continue
SkipSelfPair ==
    /\ rpc = "detect"
    /\ stack = <<>>
    /\ PairLeft
    /\ sourceNodes[si] = sinkNodes[ki]
    /\ si' = NextSi
    /\ ki' = NextKi
    /\ UNCHANGED <<graph, rpc, propagated, sourceNodes, sinkNodes, sink, stack, visited, path,
                   transforms, riskyPaths, result>>
    /\ UNCHANGED propVars
    /\ UNCHANGED gvars
    /\ UNCHANGED <<enrichVars, planVars, histVars>>

\* transforms after the node id has been entered
WithTransform(trs, id) ==
    IF NodeFacts[NodeById(graph, id)].transform THEN Append(trs, id) ELSE trs

\* findPathToSink(source.id, sink.id, new Set(), [], [], 0): the source is
\* entered; it differs from the sink, so the search continues over its edges
SearchPair ==
    /\ rpc = "detect"
    /\ stack = <<>>
    /\ PairLeft
    /\ sourceNodes[si] # sinkNodes[ki]
    /\ sink' = sinkNodes[ki]
    /\ stack' = <<[start |-> sourceNodes[si], depth |-> 0, ei |-> 1]>>
    /\ visited' = {sourceNodes[si]}
    /\ path' = <<sourceNodes[si]>>
    /\ transforms' = WithTransform(<<>>, sourceNodes[si])
    /\ si' = NextSi
    /\ ki' = NextKi
    /\ UNCHANGED <<graph, rpc, propagated, sourceNodes, sinkNodes, riskyPaths, result>>
    /\ UNCHANGED propVars
    /\ UNCHANGED gvars
    /\ UNCHANGED <<enrichVars, planVars, histVars>>

Frame == stack[Len(stack)]

EdgeAt == EdgesFrom(graph, Frame.start)[Frame.ei]

Advanced == [stack EXCEPT ![Len(stack)].ei = @ + 1]

InLoop == /\ rpc = "detect"
          /\ stack # <<>>
          /\ Frame.ei <= Len(EdgesFrom(graph, Frame.start))

\* A search that guards neither depth nor revisits
EntersUnguarded == EdgeAt.to \in NodeIds(graph)

\* A search that guards the depth but not revisits
EntersWithinDepth == /\ Frame.depth + 1 <= MAX_PATH_LENGTH
                     /\ EdgeAt.to \in NodeIds(graph)

\* The callee findPathToSink(edge.to, ..., depth + 1) passes both early returns
Enters == /\ Frame.depth + 1 <= MAX_PATH_LENGTH
          /\ EdgeAt.to \notin visited
          /\ EdgeAt.to \in NodeIds(graph)

\* A search that asks for no transform
ReachedSinkOnly == EdgeAt.to = sink

\* The callee has reached the sink with a transform on the path
Reached == /\ EdgeAt.to = sink
           /\ WithTransform(transforms, EdgeAt.to) # <<>>

\* (edge.weight ?? 0.5) < 0.3: the edge is not followed
SkipWeakEdge ==
    /\ InLoop
    /\ EdgeWeight(EdgeAt) < MIN_EDGE_WEIGHT
    /\ stack' = Advanced
    /\ UNCHANGED <<graph, rpc, propagated, sourceNodes, sinkNodes, si, ki, sink, visited, path,
                   transforms, riskyPaths, result>>
    /\ UNCHANGED propVars
    /\ UNCHANGED gvars
    /\ UNCHANGED <<enrichVars, planVars, histVars>>

\* The callee returns at once: too deep, already on the path, or not a node
RefuseEdge ==
    /\ InLoop
    /\ EdgeWeight(EdgeAt) >= MIN_EDGE_WEIGHT
    /\ ~Enters
    /\ stack' = Advanced
    /\ UNCHANGED <<graph, rpc, propagated, sourceNodes, sinkNodes, si, ki, sink, visited, path,
                   transforms, riskyPaths, result>>
    /\ UNCHANGED propVars
    /\ UNCHANGED gvars
    /\ UNCHANGED <<enrichVars, planVars, histVars>>

\* The callee records a risky path, undoes its pushes and returns
RecordPath ==
    /\ InLoop
    /\ EdgeWeight(EdgeAt) >= MIN_EDGE_WEIGHT
    /\ Enters
    /\ Reached
    /\ riskyPaths' = Append(riskyPaths,
                            RiskyPath(graph, Append(path, EdgeAt.to),
                                      WithTransform(transforms, EdgeAt.to)))
    /\ stack' = Advanced
    /\ UNCHANGED <<graph, rpc, propagated, sourceNodes, sinkNodes, si, ki, sink, visited, path,
                   transforms, result>>
    /\ UNCHANGED propVars
    /\ UNCHANGED gvars
    /\ UNCHANGED <<enrichVars, planVars, histVars>>

\* The callee is entered and goes on over its own edges
FollowEdge ==
    /\ InLoop
    /\ EdgeWeight(EdgeAt) >= MIN_EDGE_WEIGHT
    /\ Enters
    /\ ~Reached
    /\ Len(stack) < MaxCallDepth
    /\ stack' = Append(Advanced, [start |-> EdgeAt.to, depth |-> Frame.depth + 1, ei |-> 1])
    /\ visited' = visited \cup {EdgeAt.to}
    /\ path' = Append(path, EdgeAt.to)
    /\ transforms' = WithTransform(transforms, EdgeAt.to)
    /\ UNCHANGED <<graph, rpc, propagated, sourceNodes, sinkNodes, si, ki, sink, riskyPaths,
                   result>>
    /\ UNCHANGED propVars
    /\ UNCHANGED gvars
    /\ UNCHANGED <<enrichVars, planVars, histVars>>

\* The loop over the edges is over: path.pop(), transforms.pop() for a
\* transform, visited.delete(start), return
Return ==
    /\ rpc = "detect"
    /\ stack # <<>>
    /\ Frame.ei > Len(EdgesFrom(graph, Frame.start))
    /\ path' = SubSeq(path, 1, Len(path) - 1)
    /\ transforms' = IF NodeFacts[NodeById(graph, Frame.start)].transform
                     THEN SubSeq(transforms, 1, Len(transforms) - 1)
                     ELSE transforms
    /\ visited' = visited \ {Frame.start}
    /\ stack' = SubSeq(stack, 1, Len(stack) - 1)
    /\ UNCHANGED <<graph, rpc, propagated, sourceNodes, sinkNodes, si, ki, sink, riskyPaths,
                   result>>
    /\ UNCHANGED propVars
    /\ UNCHANGED gvars
    /\ UNCHANGED <<enrichVars, planVars, histVars>>

\* Every pair searched: deduplicate, sort, keep the top paths
FinishDetect ==
    /\ rpc = "detect"
    /\ stack = <<>>
    /\ ~PairLeft
    /\ result' = TopRiskyPaths(riskyPaths)
    /\ rpc' = "done"
    /\ UNCHANGED <<graph, propagated, sourceNodes, sinkNodes, si, ki, sink, stack, visited,
                   path, transforms, riskyPaths>>
    /\ UNCHANGED propVars
    /\ UNCHANGED gvars
    /\ UNCHANGED <<enrichVars, planVars, histVars>>

NextReach ==
    \/ StartPropagate \/ PropSeed \/ PropFollowEdge \/ PropScoreEdge \/ PropReturn
    \/ FinishPropagate
    \/ StartDetect \/ SkipSelfPair \/ SearchPair \/ SkipWeakEdge \/ RefuseEdge \/ RecordPath
    \/ FollowEdge \/ Return \/ FinishDetect

SpecReach == InitReach /\ [][NextReach]_vars

\* The same calls on the graphs above and on the graph with more pairs than
\* paths are returned
InitFan ==
    /\ findings = <<>>
    /\ CURRENT = DEFAULT_CONFIG
    /\ groups = <<>>
    /\ gpc = "off"
    /\ load = "off"
    /\ graph \in Graphs \cup {FanGraph}
    /\ rpc = "idle"
    /\ SearchIdle
    /\ EnrichOff
    /\ PlansOff
    /\ NoHistory

SpecFan == InitFan /\ [][NextReach]_vars

\* A step of a search that has been started
SearchStep ==
    \/ PropSeed \/ PropFollowEdge \/ PropScoreEdge \/ PropReturn \/ FinishPropagate
    \/ SkipSelfPair \/ SearchPair \/ SkipWeakEdge \/ RefuseEdge \/ RecordPath \/ FollowEdge
    \/ Return \/ FinishDetect

\* Nobody has to call propagateConfidence or detectRiskyPaths, but a call
\* that was made runs on: both are synchronous functions
FairReach == SpecReach /\ WF_vars(SearchStep)

---------------------------------------------------------------------------
(* Properties of groupFindings *)

Rank(severity) ==
    CASE severity = "low" -> 1 [] severity = "moderate" -> 2
      [] severity = "high" -> 3 [] severity = "critical" -> 4

SeverityOfRank(n) ==
    CASE n = 1 -> "low" [] n = 2 -> "moderate" [] n = 3 -> "high" [] n >= 4 -> "critical"

\* The documented thresholds: critical >= 0.90, high >= 0.70, moderate >= 0.50
DocumentedSeverity(score) ==
    IF score >= 9000 THEN 4 ELSE IF score >= 7000 THEN 3 ELSE IF score >= 5000 THEN 2 ELSE 1

DocumentedThresholds ==
    /\ CURRENT.thresholds.critical = 9000
    /\ CURRENT.thresholds.high = 7000
    /\ CURRENT.thresholds.moderate = 5000

Grouped == gpc = "grouped"

GroupSet == {groups[i] : i \in 1..Len(groups)}

InputSet == {findings[i] : i \in 1..Len(findings)}

\* The hint and metadata findings of the file that the taxonomy relates to a usage rule
RelatedEvidence(ruleId, file) ==
    { f \in InputSet :
        /\ f.file = file
        /\ \/ RuleType(f.ruleId) = "hint" /\ f.ruleId \in SeqToSet(ChildRules(ruleId))
           \/ RuleType(f.ruleId) = "metadata" /\ ruleId \in SeqToSet(ParentRules(f.ruleId)) }

\* C4: every group returned by groupFindings has a compositeScore, and it lies in [0,1]
C4_CompositeScoreInUnitInterval ==
    Grouped => \A g \in GroupSet :
        /\ g.compositeScore # Null
        /\ g.compositeScore >= 0
        /\ g.compositeScore <= SCALE

\* a returned group whose score exceeded 1 before the clamp
C4_Witness ==
    /\ Grouped
    /\ \E g \in GroupSet :
            CompositeRaw(CURRENT, g.primaryFinding, g.relatedFindings, g.file) > SCALE

\* C5: the final severity of a group is never below its primary finding's severity
C5_SeverityNeverLowered ==
    Grouped => \A g \in GroupSet : Rank(g.severity) >= Rank(g.primaryFinding.severity)

\* a group with related findings whose score maps below the primary's severity
C5_Witness ==
    /\ Grouped
    /\ DocumentedThresholds
    /\ \E g \in GroupSet :
        /\ g.relatedFindings # <<>>
        /\ DocumentedSeverity(g.compositeScore) < Rank(g.primaryFinding.severity)

\* C6: no returned hint-only group has a composite score below thresholds.minGroup
C6_HintOnlyGroupAtLeastMinGroup ==
    Grouped => \A g \in GroupSet :
        RuleType(g.primaryFinding.ruleId) = "hint"
            => g.compositeScore >= CURRENT.thresholds.minGroup

ExpectedSeverity(g, raised) ==
    SeverityOfRank(Max(IF raised THEN Min(Rank(g.primaryFinding.severity) + 1, 4)
                                 ELSE Rank(g.primaryFinding.severity),
                       DocumentedSeverity(g.compositeScore)))

\* C9 as stated: the primary's severity is raised whenever relatedFindings is not empty
C9_SeverityRaisedIfAnyRelated ==
    (Grouped /\ DocumentedThresholds) =>
        \A g \in GroupSet : g.severity = ExpectedSeverity(g, g.relatedFindings # <<>>)

\* C9 amended: the primary's severity is raised one level exactly when a hint
\* or metadata finding of the file is related to the usage rule of the group;
\* other usage findings of the same rule in relatedFindings do not raise it
C9_SeverityRaisedIfHintOrMetadata ==
    (Grouped /\ DocumentedThresholds) =>
        \A g \in GroupSet :
            g.severity = ExpectedSeverity(g,
                /\ RuleType(g.primaryFinding.ruleId) = "usage"
                /\ RelatedEvidence(g.primaryFinding.ruleId, g.file) # {})

\* a group raised by a related hint or metadata finding above the severity of
\* its score
C9_Witness ==
    /\ Grouped
    /\ DocumentedThresholds
    /\ \E g \in GroupSet :
        /\ RelatedEvidence(g.primaryFinding.ruleId, g.file) # {}
        /\ Rank(g.severity) > DocumentedSeverity(g.compositeScore)
        /\ Rank(g.severity) > Rank(g.primaryFinding.severity)

\* The findings that survive deduplicateFindings
Deduplicated == SeqToSet(deduplicateFindings(findings))

GroupsOf(file, ruleId) ==
    {i \in 1..Len(groups) :
        groups[i].primaryFinding.file = file /\ groups[i].primaryFinding.ruleId = ruleId}

\* C10 as stated: one group per (file, rule id) of the deduplicated findings,
\* for every rule id that is of role usage or absent from the taxonomy
C10_OneGroupPerUsageOrUnknownRule ==
    Grouped => \A f \in Deduplicated :
        (RuleType(f.ruleId) = "usage" \/ ~RuleInTaxonomy(f.ruleId))
            => Cardinality(GroupsOf(f.file, f.ruleId)) = 1

\* C10 amended: one group per (file, rule id) of the deduplicated findings for the rule ids the taxonomy
\* classifies as usage, its primary being one of those findings; the findings
\* of a rule id absent from the taxonomy are not clustered, each of them is
\* the primary of a group of its own without related findings
C10_OneGroupPerTaxonomyUsageRule ==
    Grouped => \A f \in Deduplicated :
        /\ RuleType(f.ruleId) = "usage"
            => /\ Cardinality(GroupsOf(f.file, f.ruleId)) = 1
               /\ \A i \in GroupsOf(f.file, f.ruleId) : groups[i].primaryFinding \in InputSet
        /\ ~RuleInTaxonomy(f.ruleId)
            => /\ Cardinality({i \in 1..Len(groups) : groups[i].primaryFinding = f}) = 1
               /\ \A i \in 1..Len(groups) :
                    groups[i].primaryFinding = f => groups[i].relatedFindings = <<>>

\* two findings of one usage rule in one file, grouped together; and two
\* findings of an unknown rule in one file, in two groups
C10_Witness ==
    /\ Grouped
    /\ \/ \E f, h \in InputSet :
            /\ f # h /\ f.file = h.file /\ f.ruleId = h.ruleId
            /\ RuleType(f.ruleId) = "usage"
            /\ Len(groups) = 1
       \/ \E f, h \in InputSet :
            /\ f # h /\ f.file = h.file /\ f.ruleId = h.ruleId
            /\ ~RuleInTaxonomy(f.ruleId)
            /\ Len(groups) = 2

---------------------------------------------------------------------------
(* Properties of detectRiskyPaths and propagateConfidence *)

Detected == rpc = "done"

IsTransform(id) == NodeFacts[NodeById(graph, id)].transform

\* C1: every risky path found or returned has a source different from its
\* sink and at least one transform; and when one node is the only source
\* candidate and the only sink candidate, no path is found at all
C1_SourceDiffersFromSinkAndTransformPresent ==
    /\ \A i \in 1..Len(riskyPaths) :
         /\ riskyPaths[i].source # riskyPaths[i].sink
         /\ riskyPaths[i].transforms # <<>>
    /\ \A i \in 1..Len(result) :
         /\ result[i].source # result[i].sink
         /\ result[i].transforms # <<>>
    /\ (rpc \in {"detect", "done"} /\ Len(sourceNodes) = 1 /\ sourceNodes = sinkNodes)
         => riskyPaths = <<>> /\ result = <<>>

\* detectRiskyPaths has returned a path from a graph in which some node is
\* a source candidate and a sink candidate at once
C1_Witness ==
    /\ Detected
    /\ result # <<>>
    /\ \E i \in 1..Len(sourceNodes) : \E k \in 1..Len(sinkNodes) : sourceNodes[i] = sinkNodes[k]

\* C2: every returned risky path has a transform strictly inside it, neither
\* its first nor its last node
C2_TransformStrictlyInside ==
    \A i \in 1..Len(result) :
        \E k \in 2..(Len(result[i].path) - 1) : IsTransform(result[i].path[k])

\* C3: once started, the propagation search returns and the risky-path
\* search returns, on every graph
C3_SearchesTerminate ==
    /\ (rpc = "propagate") ~> (rpc = "idle" /\ propagated)
    /\ (rpc = "detect") ~> Detected

\* Both searches have returned on a graph with a cycle
C3_Witness ==
    /\ Detected
    /\ propagated
    /\ \E i, j \in 1..Len(graph.edges) :
         /\ graph.edges[i].from = graph.edges[j].to
         /\ graph.edges[i].to = graph.edges[j].from

\* The chain source (0.8) -> transform (0.9) -> sink (0.7), edges traversable
IsScenarioChain ==
    /\ Len(graph.nodes) = 3
    /\ Len(graph.edges) = 2
    /\ NodeConf(graph.nodes[1], 0) = (8 * SCALE) \div 10
    /\ NodeConf(graph.nodes[2], 0) = (9 * SCALE) \div 10
    /\ NodeConf(graph.nodes[3], 0) = (7 * SCALE) \div 10
    /\ sourceNodes = <<graph.nodes[1].id>>
    /\ sinkNodes = <<graph.nodes[3].id>>
    /\ IsTransform(graph.nodes[2].id)
    /\ graph.edges[1].from = graph.nodes[1].id /\ graph.edges[1].to = graph.nodes[2].id
    /\ graph.edges[2].from = graph.nodes[2].id /\ graph.edges[2].to = graph.nodes[3].id
    /\ \A i \in 1..2 : EdgeWeight(graph.edges[i]) >= MIN_EDGE_WEIGHT

\* |x - y| is at most half a percent of the scale
About(x, y) == Abs(x - y) * 200 <= SCALE

\* C7 as stated: the chain yields one path, of confidence about 0.367 and level low
C7_ChainIsLow ==
    (Detected /\ IsScenarioChain) =>
        /\ Len(result) = 1
        /\ About(result[1].confidence, (367 * SCALE) \div 1000)
        /\ result[1].riskLevel = "low"

\* C7 amended: the chain yields one path, of confidence 0.8 x 0.9 x 0.7 x 0.9^2,
\* about 0.408, and level moderate
C7_ChainIsModerate ==
    (Detected /\ IsScenarioChain) =>
        /\ Len(result) = 1
        /\ About(result[1].confidence, (408 * SCALE) \div 1000)
        /\ result[1].riskLevel = "moderate"

C7_Witness == Detected /\ IsScenarioChain /\ result # <<>>

---------------------------------------------------------------------------
(* deduplicateFindings *)

\* The identity of a finding for deduplication: file, rule id, line and the
\* first 50 characters of the evidence
IdentityOf(f) == <<f.file, f.ruleId, f.line, Slice(f.evidence, 50)>>

\* C11: the deduplicated list holds, in input order, exactly the first input
\* finding of every (file, rule id, line, first 50 characters of evidence):
\* no two of its findings share that identity, every identity of the input is
\* represented, and the finding kept for an identity is the earliest with it
C11_FirstOccurrencePerIdentity ==
    Grouped =>
        LET d == deduplicateFindings(findings)
            first(i) == \A j \in 1..(i - 1) : IdentityOf(findings[j]) # IdentityOf(findings[i])
            firsts == SelectSeq([i \in 1..Len(findings) |-> i], first)
        IN  /\ \A i, j \in 1..Len(d) : IdentityOf(d[i]) = IdentityOf(d[j]) => i = j
            /\ \A i \in 1..Len(findings) : \E j \in 1..Len(d) : IdentityOf(d[j]) = IdentityOf(findings[i])
            /\ d = [k \in 1..Len(firsts) |-> findings[firsts[k]]]

---------------------------------------------------------------------------
(* reachability: buildCoarseGraph *)

\* A merge that keeps the severity seen last
PickLater(a, b) == b

\* (order[a] >= order[b]) ? a : b, with low 1, moderate 2, high 3, critical 4
pickHigherSeverity(a, b) ==
    LET order == [low |-> 1, moderate |-> 2, high |-> 3, critical |-> 4]
    IN  IF order[a] >= order[b] THEN a ELSE b

\* the node of a finding seen for the first time
NewNode(f, compositeScore) ==
    ("severity" :> f.severity) @@ FindingNode(f.ruleId, f.file, f.line, f.confidence, compositeScore)

\* A build that stores a node for every finding it is handed
AlwaysInsert(nodes, f, compositeScore) == Append(nodes, NewNode(f, compositeScore))

\* nodesById after upsertNodeForFinding(f, compositeScore); the sequence is the
\* insertion order of the Map
upsertNodeForFinding(nodes, f, compositeScore) ==
    IF \E i \in 1..Len(nodes) : nodes[i].id = NodeId(f.ruleId, f.file, f.line)
    THEN [i \in 1..Len(nodes) |->
            IF nodes[i].id # NodeId(f.ruleId, f.file, f.line) THEN nodes[i]
            ELSE [nodes[i] EXCEPT
                    !.severity = pickHigherSeverity(@, f.severity),
                    !.confidence = Max(@, f.confidence),
                    !.compositeScore = IF compositeScore = Null THEN @
                                       ELSE Max(IF @ = Null THEN 0 ELSE @, compositeScore)]]
    ELSE Append(nodes, NewNode(f, compositeScore))

\* the inner loop over g.relatedFindings, from the j-th on
RECURSIVE AddRelated(_, _, _, _)
AddRelated(built, g, primaryId, j) ==
    IF j > Len(g.relatedFindings) THEN built
    ELSE AddRelated(
            [ nodes |-> upsertNodeForFinding(built.nodes, g.relatedFindings[j], g.compositeScore),
              edges |-> Append(built.edges,
                          RelatedEdge(primaryId,
                                      NodeId(g.relatedFindings[j].ruleId, g.relatedFindings[j].file,
                                             g.relatedFindings[j].line),
                                      Max(IF g.compositeScore = Null THEN 0 ELSE g.compositeScore,
                                          g.relatedFindings[j].confidence))) ],
            g, primaryId, j + 1)

\* the loop over groups, from the i-th on
RECURSIVE AddGroups(_, _, _)
AddGroups(built, gs, i) ==
    IF i > Len(gs) THEN built
    ELSE AddGroups(
            AddRelated([ nodes |-> upsertNodeForFinding(built.nodes, gs[i].primaryFinding, gs[i].compositeScore),
                         edges |-> built.edges ],
                       gs[i],
                       NodeId(gs[i].primaryFinding.ruleId, gs[i].primaryFinding.file, gs[i].primaryFinding.line),
                       1),
            gs, i + 1)

\* the returned graph with its stats
WithStats(built) ==
    [ nodes |-> built.nodes, edges |-> built.edges,
      stats |-> [nodeCount |-> Len(built.nodes), edgeCount |-> Len(built.edges)] ]

buildCoarseGraph(gs) == WithStats(AddGroups([nodes |-> <<>>, edges |-> <<>>], gs, 1))

MaxGroups == 2

\* Findings of groups: two matches of one rule on one line, which share a node
\* id, and a finding without a line
BuildFindings ==
    { [ruleId |-> "AI-FP-OPENAI-CLIENT", file |-> "src/app.py", line |-> 3,
       severity |-> "low", confidence |-> 5000],
      [ruleId |-> "AI-FP-OPENAI-CLIENT", file |-> "src/app.py", line |-> 3,
       severity |-> "high", confidence |-> 9000],
      [ruleId |-> "AI-FP-OPENAI-IMPORT", file |-> "src/app.py", line |-> Null,
       severity |-> "moderate", confidence |-> 7000] }

\* FindingGroup values, with and without a composite score
GroupPool ==
    { [primaryFinding |-> p, relatedFindings |-> r, compositeScore |-> s] :
        p \in BuildFindings,
        r \in {<<>>} \cup {<<f>> : f \in {b \in BuildFindings : b.severity # "low"}},
        s \in {Null, 3000, 8000} }

InitBuild ==
    /\ groups \in UNION {[1..n -> GroupPool] : n \in 0..MaxGroups}
    /\ gpc = "groups"
    /\ load = "off"
    /\ findings = <<>>
    /\ CURRENT = DEFAULT_CONFIG
    /\ graph = [nodes |-> <<>>, edges |-> <<>>]
    /\ rpc = "off"
    /\ SearchIdle
    /\ EnrichOff
    /\ PlansOff
    /\ NoHistory

BuildCoarseGraph ==
    /\ gpc = "groups"
    /\ graph' = buildCoarseGraph(groups)
    /\ gpc' = "built"
    /\ UNCHANGED <<findings, CURRENT, groups, load, rpc, propagated, propVars, riskVars>>
    /\ UNCHANGED <<enrichVars, planVars, histVars>>

SpecBuild == InitBuild /\ [][BuildCoarseGraph]_vars

Built == gpc = "built"

\* every finding a group refers to, with the composite score of the group
References ==
    UNION { {[f |-> groups[i].primaryFinding, score |-> groups[i].compositeScore]}
            \cup {[f |-> groups[i].relatedFindings[j], score |-> groups[i].compositeScore]
                  : j \in 1..Len(groups[i].relatedFindings)}
          : i \in 1..Len(groups) }

ReferencesOf(id) == {r \in References : NodeId(r.f.ruleId, r.f.file, r.f.line) = id}

\* C12: the built graph has no two nodes of one id, every primary and related
\* finding of every group has the node of its id, and the stats are the
\* lengths of the node and edge lists
C12_NodeIdsUniqueAndComplete ==
    Built =>
        /\ \A i, j \in 1..Len(graph.nodes) : graph.nodes[i].id = graph.nodes[j].id => i = j
        /\ \A r \in References : NodeId(r.f.ruleId, r.f.file, r.f.line) \in NodeIds(graph)
        /\ NodeIds(graph) = {NodeId(r.f.ruleId, r.f.file, r.f.line) : r \in References}
        /\ graph.stats.nodeCount = Len(graph.nodes)
        /\ graph.stats.edgeCount = Len(graph.edges)

\* two different findings of one node id and a finding of another id were built
C12_Witness ==
    /\ Built
    /\ Len(graph.nodes) = 2
    /\ \E r, q \in References :
          r.f # q.f /\ NodeId(r.f.ruleId, r.f.file, r.f.line) = NodeId(q.f.ruleId, q.f.file, q.f.line)

\* id, severity, confidence and composite score of every node
NodeAttributes(g) ==
    { [id |-> g.nodes[i].id, severity |-> g.nodes[i].severity, confidence |-> g.nodes[i].confidence,
       compositeScore |-> g.nodes[i].compositeScore] : i \in 1..Len(g.nodes) }

\* C13: a node carries the highest severity and confidence of the findings of
\* its id and the highest composite score of the groups that refer to it (none
\* if no such group has one); every order of the groups gives these
\* attributes, and so does the list with one of its groups repeated
C13_MergeKeepsMaximum ==
    Built =>
        /\ \A k \in 1..Len(graph.nodes) :
            LET n == graph.nodes[k]
                refs == ReferencesOf(n.id)
                scores == {r.score : r \in refs} \ {Null}
            IN  /\ \E r \in refs : r.f.severity = n.severity
                /\ \A r \in refs : Rank(r.f.severity) <= Rank(n.severity)
                /\ \E r \in refs : r.f.confidence = n.confidence
                /\ \A r \in refs : r.f.confidence <= n.confidence
                /\ IF scores = {} THEN n.compositeScore = Null
                   ELSE n.compositeScore \in scores /\ \A s \in scores : s <= n.compositeScore
        /\ \A p \in [1..Len(groups) -> 1..Len(groups)] :
            (\A i, j \in 1..Len(groups) : p[i] = p[j] => i = j)
                => NodeAttributes(buildCoarseGraph([i \in 1..Len(groups) |-> groups[p[i]]]))
                        = NodeAttributes(graph)
        /\ \A i \in 1..Len(groups) :
            NodeAttributes(buildCoarseGraph(Append(groups, groups[i]))) = NodeAttributes(graph)

\* a node to which two groups refer with findings of different severity and
\* confidence and with different composite scores, the higher ones first
C13_Witness ==
    /\ Built
    /\ Len(groups) = 2
    /\ groups[1].primaryFinding.severity = "high"
    /\ groups[2].primaryFinding.severity = "low"
    /\ groups[1].compositeScore = 8000
    /\ groups[2].compositeScore = 3000
    /\ \E k \in 1..Len(graph.nodes) :
          /\ graph.nodes[k].id = NodeId("AI-FP-OPENAI-CLIENT", "src/app.py", 3)
          /\ graph.nodes[k].severity = "high"
          /\ graph.nodes[k].confidence = 9000
          /\ graph.nodes[k].compositeScore = 8000

---------------------------------------------------------------------------
(* reachability: the weights propagateConfidence returns *)

\* C14: after propagateConfidence every edge of the graph has a weight, and
\* the weight is in [0,1]; the edges whose ends are no nodes, the edges
\* without a weight and the edges of the boosted kinds included
C14_WeightsInUnitInterval ==
    propagated =>
        \A i \in 1..Len(graph.edges) :
            /\ graph.edges[i].weight # Null
            /\ graph.edges[i].weight >= 0
            /\ graph.edges[i].weight <= SCALE

\* propagation has run on a graph with an endpoint edge whose boosted base
\* weight was capped at 1, a boosted edge to a callee and a boosted edge
\* neither end of which is a node
C14_Witness ==
    /\ propagated
    /\ \E i \in 1..Len(graph.edges) :
          /\ graph.edges[i].kind = "uses_endpoint"
          /\ edgeWeights[graph.edges[i].id] = SCALE
          /\ graph.edges[i].weight = SCALE
    /\ \E i \in 1..Len(graph.edges) :
          /\ graph.edges[i].kind = "uses_tool"
          /\ graph.edges[i].to \notin NodeIds(graph)
    /\ \E i \in 1..Len(graph.edges) :
          /\ graph.edges[i].from \notin NodeIds(graph)
          /\ graph.edges[i].to \notin NodeIds(graph)
          /\ graph.edges[i].weight \in 1..SCALE

---------------------------------------------------------------------------
(* reachability: the depth of the propagation search *)

\* C15: the propagation search never updates the path score of an edge that
\* is the 6th or a later edge of the chain from the seed; the frame that
\* scores the k-th edge of the chain is the k-th of the call stack
C15_ScoresWithinFiveHops ==
    [][ (rpc = "propagate" /\ pathScores' # pathScores)
            => Len(pstack) <= PROPAGATION_MAX_PATH_LENGTH ]_vars

---------------------------------------------------------------------------
(* reachability: the list detectRiskyPaths returns *)

\* the (source id, sink id) pairs for which a qualifying path was found
PairsFound == {<<riskyPaths[i].source, riskyPaths[i].sink>> : i \in 1..Len(riskyPaths)}

PairsReturned == {<<result[i].source, result[i].sink>> : i \in 1..Len(result)}

\* C16: the returned list holds at most one path per (source id, sink id)
\* pair, and it is a path found for the pair of the highest confidence of
\* all found for it; the list has at most 50 entries, sorted by confidence
\* in non-increasing order, and a pair that is left out has no path of a
\* higher confidence than any returned path
C16_BestPathPerPairTopFifty ==
    Detected =>
        /\ \A i, j \in 1..Len(result) :
              (result[i].source = result[j].source /\ result[i].sink = result[j].sink) => i = j
        /\ \A i \in 1..Len(result) :
              /\ \E k \in 1..Len(riskyPaths) : riskyPaths[k] = result[i]
              /\ \A k \in 1..Len(riskyPaths) :
                    (riskyPaths[k].source = result[i].source /\ riskyPaths[k].sink = result[i].sink)
                        => riskyPaths[k].confidence <= result[i].confidence
        /\ Len(result) <= 50
        /\ \A i \in 1..(Len(result) - 1) : result[i].confidence >= result[i + 1].confidence
        /\ \A k \in 1..Len(riskyPaths) :
              <<riskyPaths[k].source, riskyPaths[k].sink>> \notin PairsReturned
                  => /\ Cardinality(PairsFound) > 50
                     /\ \A i \in 1..Len(result) : riskyPaths[k].confidence <= result[i].confidence

\* paths were found for more than 50 pairs, two of different confidence for
\* a pair, and 50 paths of several confidences were returned
C16_Witness ==
    /\ Detected
    /\ Cardinality(PairsFound) > 50
    /\ Len(result) = 50
    /\ result[1].confidence > result[50].confidence
    /\ \E j, k \in 1..Len(riskyPaths) :
          /\ riskyPaths[j].source = riskyPaths[k].source
          /\ riskyPaths[j].sink = riskyPaths[k].sink
          /\ riskyPaths[j].confidence < riskyPaths[k].confidence
          /\ j < k

---------------------------------------------------------------------------
(* reachability: tools and transforms *)

\* C17: no node that its id or label marks as a tool is classified as a
\* transform, and no node in the transforms of a returned RiskyPath is
\* marked as a tool
C17_TransformsAreNeverTools ==
    Detected =>
        /\ \A i \in 1..Len(graph.nodes) :
              NodeFacts[graph.nodes[i]].tool => ~NodeFacts[graph.nodes[i]].transform
        /\ \A i \in 1..Len(result) : \A j \in 1..Len(result[i].transforms) :
              ~NodeFacts[NodeById(graph, result[i].transforms[j])].tool

---------------------------------------------------------------------------
(* scoring: the options of scoring.json *)

\* The configuration in which the options boosts.usageAndHint,
\* boosts.usageAndMetadata and demotions.loopOnlyWithoutInvoke, where they
\* were set, are the factors applied
WithNamedOptions(c) ==
    [c EXCEPT
        !.boosts.usagePlusHint =
            IF "usageAndHint" \in DOMAIN c.boosts THEN c.boosts.usageAndHint ELSE @,
        !.boosts.usagePlusMetadata =
            IF "usageAndMetadata" \in DOMAIN c.boosts THEN c.boosts.usageAndMetadata ELSE @,
        !.demotions.loopWithoutInvoke =
            IF "loopOnlyWithoutInvoke" \in DOMAIN c.demotions THEN c.demotions.loopOnlyWithoutInvoke ELSE @]

\* C19: after setScoringConfig was called with boosts.usageAndHint,
\* boosts.usageAndMetadata or demotions.loopOnlyWithoutInvoke set to v, the
\* next groupFindings call scores its groups with the factor v where the
\* default 1.15, 1.05 or 0.80 would apply
C19_NamedOptionsApplied ==
    Grouped => groups = groupFindings(WithNamedOptions(CURRENT), findings)

---------------------------------------------------------------------------
(* scoring: one configuration for all scans of a process *)

\* C20: a scan whose load of the scoring configuration fails groups and
\* scores its findings with the default configuration, whatever earlier
\* scans of the process loaded
C20_FailedLoadUsesDefaults ==
    (Grouped /\ load = "failed") => groups = groupFindings(DEFAULT_CONFIG, findings)

---------------------------------------------------------------------------
(* reachability: enrichGraphWithCallEdges.  The call edges pushed on
   enrichedEdges are counted, as the function counts them; the nodes they
   start from play no part in the caps. *)

MAX_FILES_FOR_CALL_EDGES == 200

MAX_CALL_EDGES_PER_FILE == 100

MAX_TOTAL_CALL_EDGES == 5000

\* More files with findings than are processed, and a handful
ManyFiles == 201

FewFiles == 3

\* More call edges in one file than are processed
ManyEdges == 150

\* A filesToProcess that is not capped
EveryFile(n) == n

\* Array.from(filesWithFindings).slice(0, MAX_FILES_FOR_CALL_EDGES), as a length
FilesToProcessOf(n) == Min(n, MAX_FILES_FOR_CALL_EDGES)

\* What the archive and the extractor give for the f-th file:
\*   heavy     every file holds ManyEdges calls next to findings; every 7th file is binary
\*   boundary  as many heavy files as fill the total less one file's share, then
\*             files whose calls are in no file of a node, and a heavy file
\*             at the last position processed
\*   light     three calls per file, the middle one next to no node with a
\*             line; every 5th file fails to parse
IsHeavyFile(x, f) ==
    \/ x = "heavy"
    \/ x = "boundary" /\ \/ f < MAX_TOTAL_CALL_EDGES \div MAX_CALL_EDGES_PER_FILE
                         \/ f = MAX_FILES_FOR_CALL_EDGES

\* fileContents.get(file) is defined
HasContent(x, f) == ~(x = "heavy" /\ f % 7 = 0)

\* extractCallEdges(file, content) throws
Throws(x, f) == x = "light" /\ f % 5 = 0

\* callGraph.edges.length
ExtractedEdges(x, f) == IF IsHeavyFile(x, f) THEN ManyEdges ELSE 3

\* candidateNodes is not empty and fromNode was found for the c-th call edge
HasFromNode(x, f, c) ==
    \/ IsHeavyFile(x, f)
    \/ x = "light" /\ c # 2

EnrichInputs == {0, FewFiles, ManyFiles} \X {"heavy", "boundary", "light"}

InitEnrich ==
    /\ findings = <<>>
    /\ CURRENT = DEFAULT_CONFIG
    /\ groups = <<>>
    /\ gpc = "off"
    /\ load = "off"
    /\ graph = [nodes |-> <<>>, edges |-> <<>>]
    /\ rpc = "off"
    /\ SearchIdle
    /\ epc = "ready"
    /\ \E in \in EnrichInputs : filesWithFindings = in[1] /\ extractor = in[2]
    /\ EnrichIdle
    /\ PlansOff
    /\ NoHistory

\* enrichGraphWithCallEdges is called: filesToProcess, callEdgeCount = 0
StartEnrich ==
    /\ epc = "ready"
    /\ epc' = "files"
    /\ filesToProcess' = FilesToProcessOf(filesWithFindings)
    /\ fi' = 1
    /\ callEdgeCount' = 0
    /\ UNCHANGED <<filesWithFindings, extractor, edgesToProcess, ci, edgesAddedThisFile, extractCalls>>
    /\ UNCHANGED <<gvars, rvars, planVars, histVars>>

\* the outer loop is over, or is left because the total is reached
FinishEnrich ==
    /\ epc = "files"
    /\ fi > filesToProcess \/ callEdgeCount >= MAX_TOTAL_CALL_EDGES
    /\ epc' = "done"
    /\ UNCHANGED <<filesWithFindings, extractor, filesToProcess, fi, edgesToProcess, ci,
                   callEdgeCount, edgesAddedThisFile, extractCalls>>
    /\ UNCHANGED <<gvars, rvars, planVars, histVars>>

\* if (!content) continue
SkipFile ==
    /\ epc = "files"
    /\ fi <= filesToProcess
    /\ callEdgeCount < MAX_TOTAL_CALL_EDGES
    /\ ~HasContent(extractor, fi)
    /\ fi' = fi + 1
    /\ UNCHANGED <<epc, filesWithFindings, extractor, filesToProcess, edgesToProcess, ci,
                   callEdgeCount, edgesAddedThisFile, extractCalls>>
    /\ UNCHANGED <<gvars, rvars, planVars, histVars>>

\* extractCallEdges throws: the catch block warns and the loop goes on
ExtractThrows ==
    /\ epc = "files"
    /\ fi <= filesToProcess
    /\ callEdgeCount < MAX_TOTAL_CALL_EDGES
    /\ HasContent(extractor, fi)
    /\ Throws(extractor, fi)
    /\ extractCalls' = extractCalls + 1
    /\ fi' = fi + 1
    /\ UNCHANGED <<epc, filesWithFindings, extractor, filesToProcess, edgesToProcess, ci,
                   callEdgeCount, edgesAddedThisFile>>
    /\ UNCHANGED <<gvars, rvars, planVars, histVars>>

\* extractCallEdges returns: edgesToProcess, edgesAddedThisFile = 0
ExtractFile ==
    /\ epc = "files"
    /\ fi <= filesToProcess
    /\ callEdgeCount < MAX_TOTAL_CALL_EDGES
    /\ HasContent(extractor, fi)
    /\ ~Throws(extractor, fi)
    /\ extractCalls' = extractCalls + 1
    /\ edgesToProcess' = Min(ExtractedEdges(extractor, fi), MAX_CALL_EDGES_PER_FILE)
    /\ ci' = 1
    /\ edgesAddedThisFile' = 0
    /\ epc' = "edges"
    /\ UNCHANGED <<filesWithFindings, extractor, filesToProcess, fi, callEdgeCount>>
    /\ UNCHANGED <<gvars, rvars, planVars, histVars>>

\* the inner loop is over, or is left at one of its two breaks
NextFile ==
    /\ epc = "edges"
    /\ \/ ci > edgesToProcess
       \/ callEdgeCount >= MAX_TOTAL_CALL_EDGES
       \/ edgesAddedThisFile >= MAX_CALL_EDGES_PER_FILE
    /\ fi' = fi + 1
    /\ epc' = "files"
    /\ UNCHANGED <<filesWithFindings, extractor, filesToProcess, edgesToProcess, ci,
                   callEdgeCount, edgesAddedThisFile, extractCalls>>
    /\ UNCHANGED <<gvars, rvars, planVars, histVars>>

\* the call edge passes both checks of the inner loop
InEdgeLoop ==
    /\ epc = "edges"
    /\ ci <= edgesToProcess
    /\ callEdgeCount < MAX_TOTAL_CALL_EDGES
    /\ edgesAddedThisFile < MAX_CALL_EDGES_PER_FILE

\* no candidate node or no fromNode: nothing is pushed
SkipCallEdge ==
    /\ InEdgeLoop
    /\ ~HasFromNode(extractor, fi, ci)
    /\ ci' = ci + 1
    /\ UNCHANGED <<epc, filesWithFindings, extractor, filesToProcess, fi, edgesToProcess,
                   callEdgeCount, edgesAddedThisFile, extractCalls>>
    /\ UNCHANGED <<gvars, rvars, planVars, histVars>>

\* enrichedEdges.push(...); callEdgeCount++; edgesAddedThisFile++
AddCallEdge ==
    /\ InEdgeLoop
    /\ HasFromNode(extractor, fi, ci)
    /\ callEdgeCount' = callEdgeCount + 1
    /\ edgesAddedThisFile' = edgesAddedThisFile + 1
    /\ ci' = ci + 1
    /\ UNCHANGED <<epc, filesWithFindings, extractor, filesToProcess, fi, edgesToProcess,
                   extractCalls>>
    /\ UNCHANGED <<gvars, rvars, planVars, histVars>>

NextEnrich ==
    \/ StartEnrich \/ FinishEnrich \/ SkipFile \/ ExtractThrows \/ ExtractFile
    \/ NextFile \/ SkipCallEdge \/ AddCallEdge

SpecEnrich == InitEnrich /\ [][NextEnrich]_vars

\* C18: in every run of enrichGraphWithCallEdges call edges are requested
\* for at most 200 files, at most 100 call edges are added for one file and
\* at most 5000 in total
C18_EnrichmentCapsHold ==
    /\ extractCalls <= 200
    /\ edgesAddedThisFile <= 100
    /\ callEdgeCount <= 5000

\* a run has ended in which all three caps were reached: more files had
\* findings than were requested, the last file requested held more call
\* edges than were added for it, and the total was reached with them
C18_Witness ==
    /\ epc = "done"
    /\ filesWithFindings > 200
    /\ extractCalls = 200
    /\ fi = 201
    /\ ExtractedEdges(extractor, 200) > 100
    /\ edgesAddedThisFile = 100
    /\ callEdgeCount = 5000

---------------------------------------------------------------------------
(* reachability: what propagateConfidence leaves alone *)

\* C21: the graph propagateConfidence returns has the node list it was
\* given, every node as it was, and the edges it was given in their order
\* with the same id, kind, from, to and label; its stats are the lengths of
\* the two lists
C21_OnlyWeightsChange ==
    [][ (rpc = "propagate" /\ rpc' = "idle") =>
            /\ graph'.nodes = graph.nodes
            /\ Len(graph'.edges) = Len(graph.edges)
            /\ \A i \in 1..Len(graph.edges) :
                  /\ graph'.edges[i].id = graph.edges[i].id
                  /\ graph'.edges[i].kind = graph.edges[i].kind
                  /\ graph'.edges[i].from = graph.edges[i].from
                  /\ graph'.edges[i].to = graph.edges[i].to
                  /\ graph'.edges[i].label = graph.edges[i].label
                  /\ DOMAIN graph'.edges[i] = DOMAIN graph.edges[i]
            /\ graph'.stats.nodeCount = Len(graph'.nodes)
            /\ graph'.stats.edgeCount = Len(graph'.edges) ]_vars

\* propagateConfidence has returned the graph with the light edges: its four
\* nodes and its edges of two kinds of weight, every weight rewritten
C21_Witness ==
    /\ propagated
    /\ rpc = "idle"
    /\ graph.nodes = WeakEdgeGraph.nodes
    /\ Len(graph.edges) = Len(WeakEdgeGraph.edges)
    /\ \A i \in 1..Len(graph.edges) :
          /\ graph.edges[i].id = WeakEdgeGraph.edges[i].id
          /\ graph.edges[i].weight # WeakEdgeGraph.edges[i].weight
    /\ graph.stats = [nodeCount |-> 4, edgeCount |-> 4]

---------------------------------------------------------------------------
(* reachability: enrichGraphWithCallEdges as a function of the graph, the
   groups, the file contents and what the extractor gives *)

\* !line
NoLine(line) == line = Null \/ line = 0

\* graph.nodes.filter(n => n.file === file)
CandidateNodes(g, file) == SelectSeq(g.nodes, LAMBDA n : n.file = file)

\* candidateNodes.reduce(...): the first node nearest to the call's line, as
\* a list of one node, or the empty list for null
RECURSIVE Closest(_, _, _, _)
Closest(cands, callLine, i, closest) ==
    IF i > Len(cands) THEN closest
    ELSE IF NoLine(cands[i].line) \/ NoLine(callLine) THEN Closest(cands, callLine, i + 1, closest)
    ELSE IF closest = <<>> THEN Closest(cands, callLine, i + 1, <<cands[i]>>)
    ELSE IF Abs(cands[i].line - callLine) < Abs(closest[1].line - callLine)
         THEN Closest(cands, callLine, i + 1, <<cands[i]>>)
    ELSE Closest(cands, callLine, i + 1, closest)

\* A choice of fromNode that does not look at the file
AnyNode(g, file, callEdge) == SubSeq(g.nodes, 1, 1)

\* fromNode: the node on the call's line, else the closest one
FromNode(g, file, callEdge) ==
    IF callEdge.line # Null
       /\ \E i \in 1..Len(CandidateNodes(g, file)) : CandidateNodes(g, file)[i].line = callEdge.line
    THEN SubSeq(SelectSeq(CandidateNodes(g, file), LAMBDA n : n.line = callEdge.line), 1, 1)
    ELSE Closest(CandidateNodes(g, file), callEdge.line, 1, <<>>)

\* edgeKind of a call edge
EdgeKindOf(callEdge) ==
    IF callEdge.kind = "import"
    THEN IF IncludesAny(callEdge.to, {"openai", "anthropic", "langchain", "langgraph", "crewai", "autogen"})
         THEN "uses_model" ELSE "calls"
    ELSE IF callEdge.kind \in {"method", "call"}
    THEN IF IncludesAny(ToLower(callEdge.to), {"invoke", "stream", "call", "tool", "execute", "run"})
         THEN "uses_tool"
         ELSE IF IncludesAny(ToLower(callEdge.to), {"endpoint", "api", "client"}) THEN "uses_endpoint"
         ELSE "calls"
    ELSE "calls"

\* the inner loop over edgesToProcess from the j-th call edge on
RECURSIVE AddCallEdges(_, _, _, _, _, _, _)
AddCallEdges(edges, count, g, file, calls, j, added) ==
    IF \/ j > Len(calls)
       \/ count >= MAX_TOTAL_CALL_EDGES
       \/ added >= MAX_CALL_EDGES_PER_FILE
    THEN [edges |-> edges, count |-> count]
    ELSE IF Len(CandidateNodes(g, file)) = 0 \/ FromNode(g, file, calls[j]) = <<>>
    THEN AddCallEdges(edges, count, g, file, calls, j + 1, added)
    ELSE AddCallEdges(
            Append(edges, [CallEdge(FromNode(g, file, calls[j])[1].id, calls[j].to, calls[j].confidence)
                              EXCEPT !.kind = EdgeKindOf(calls[j])]),
            count + 1, g, file, calls, j + 1, added + 1)

\* the outer loop over filesToProcess from the i-th file on; x[file] tells
\* whether fileContents holds the file, whether extractCallEdges throws, and
\* the call edges it returns
RECURSIVE EnrichFiles(_, _, _, _, _)
EnrichFiles(acc, g, files, x, i) ==
    IF i > Len(files) \/ acc.count >= MAX_TOTAL_CALL_EDGES THEN acc
    ELSE IF ~x[files[i]].content \/ x[files[i]].throws THEN EnrichFiles(acc, g, files, x, i + 1)
    ELSE EnrichFiles(AddCallEdges(acc.edges, acc.count, g, files[i],
                                  Slice(x[files[i]].edges, MAX_CALL_EDGES_PER_FILE), 1, 0),
                     g, files, x, i + 1)

\* the files of the primary and the related findings of the groups, in order
RECURSIVE FindingFiles(_, _)
FindingFiles(gs, i) ==
    IF i > Len(gs) THEN <<>>
    ELSE <<gs[i].primaryFinding.file>>
         \o [j \in 1..Len(gs[i].relatedFindings) |-> gs[i].relatedFindings[j].file]
         \o FindingFiles(gs, i + 1)

\* Array.from(new Set(...)): the first occurrence of every non-empty name
SetOrder(s) ==
    [k \in 1..Len(SelectSeq([i \in 1..Len(s) |-> i],
                            LAMBDA i : s[i] # "" /\ \A j \in 1..(i - 1) : s[j] # s[i])) |->
        s[SelectSeq([i \in 1..Len(s) |-> i],
                    LAMBDA i : s[i] # "" /\ \A j \in 1..(i - 1) : s[j] # s[i])[k]]]

enrichGraphWithCallEdges(g, gs, x) ==
    WithStats([ nodes |-> g.nodes,
                edges |-> EnrichFiles([edges |-> g.edges, count |-> 0], g,
                                      Slice(SetOrder(FindingFiles(gs, 1)), MAX_FILES_FOR_CALL_EDGES),
                                      x, 1).edges ])

\* Findings in three files; two of them have no line
EnrichFindings ==
    << [ruleId |-> "AG-LANGGRAPH-INVOKE", file |-> "src/app.py", line |-> 10,
        severity |-> "high", confidence |-> 8000],
       [ruleId |-> "AI-FP-OPENAI-IMPORT", file |-> "src/app.py", line |-> Null,
        severity |-> "moderate", confidence |-> 7000],
       [ruleId |-> "AG-TOOL-CLASS", file |-> "src/tools.py", line |-> 20,
        severity |-> "high", confidence |-> 9000],
       [ruleId |-> "AI-MCP-ENV", file |-> "src/config.py", line |-> Null,
        severity |-> "low", confidence |-> 6000] >>

EnrichGroups ==
    << [primaryFinding |-> EnrichFindings[1],
        relatedFindings |-> <<EnrichFindings[2], EnrichFindings[3]>>, compositeScore |-> 8000],
       [primaryFinding |-> EnrichFindings[4], relatedFindings |-> <<>>, compositeScore |-> Null] >>

\* Call edges as extractCallEdges returns them: a method call on the line of
\* a finding, an import at the top of the file, a call without a line
ExtractedCalls ==
    << [to |-> "invoke", kind |-> "method", line |-> 10, confidence |-> 7000],
       [to |-> "openai", kind |-> "import", line |-> 1, confidence |-> 9000],
       [to |-> "helper", kind |-> "call", line |-> Null, confidence |-> 8000] >>

\* For one file: not in fileContents, the extractor throws, or its call edges
FileResults ==
    { [content |-> FALSE, throws |-> FALSE, edges |-> <<>>],
      [content |-> TRUE, throws |-> TRUE, edges |-> <<>>],
      [content |-> TRUE, throws |-> FALSE, edges |-> <<>>],
      [content |-> TRUE, throws |-> FALSE, edges |-> SubSeq(ExtractedCalls, 1, 1)],
      [content |-> TRUE, throws |-> FALSE, edges |-> SubSeq(ExtractedCalls, 2, 3)],
      [content |-> TRUE, throws |-> FALSE, edges |-> ExtractedCalls] }

\* The graph of the groups, or of the first group only: then a file with
\* findings has no node
InitOmit ==
    /\ findings = <<>>
    /\ CURRENT = DEFAULT_CONFIG
    /\ groups = EnrichGroups
    /\ gpc = "built"
    /\ load = "off"
    /\ graph \in {buildCoarseGraph(EnrichGroups), buildCoarseGraph(SubSeq(EnrichGroups, 1, 1))}
    /\ rpc = "off"
    /\ SearchIdle
    /\ epc = "ready"
    /\ filesWithFindings = 3
    /\ extractor \in [{"src/app.py", "src/tools.py", "src/config.py"} -> FileResults]
    /\ EnrichIdle
    /\ PlansOff
    /\ NoHistory

\* enrichGraphWithCallEdges(graph, groups, fileContents) from call to return
EnrichGraph ==
    /\ epc = "ready"
    /\ graph' = enrichGraphWithCallEdges(graph, groups, extractor)
    /\ callEdgeCount' = Len(enrichGraphWithCallEdges(graph, groups, extractor).edges) - Len(graph.edges)
    /\ epc' = "done"
    /\ UNCHANGED <<filesWithFindings, extractor, filesToProcess, fi, edgesToProcess, ci,
                   edgesAddedThisFile, extractCalls>>
    /\ UNCHANGED <<gvars, rpc, propagated, propVars, riskVars, planVars, histVars>>

SpecOmit == InitOmit /\ [][EnrichGraph]_vars

\* the file of the node an edge starts from
FileOfNode(g, id) == NodeById(g, id).file

\* a node of the file can be matched with the call edge
Matchable(g, file, callEdge) ==
    \E i \in 1..Len(g.nodes) :
        /\ g.nodes[i].file = file
        /\ \/ callEdge.line # Null /\ g.nodes[i].line = callEdge.line
           \/ ~NoLine(g.nodes[i].line) /\ ~NoLine(callEdge.line)

\* the call gives a graph: it does not throw
Returns(enriched, g) ==
    /\ enriched.stats.nodeCount = Len(g.nodes)
    /\ enriched.stats.edgeCount >= Len(g.edges)

\* C22: enrichGraphWithCallEdges returns for every input; the nodes and the
\* edges that were there are returned as they were, with the call edges
\* after them; every call edge added starts at a node of a file that has
\* content and whose extraction did not throw, and stands for a call the
\* extractor returned for that file; a file without content or whose
\* extraction throws does not keep the calls of the other files from being
\* added; a call that matches no node of its file adds nothing
C22_OmissionNeverAborts ==
    /\ [](epc = "ready" => Returns(enrichGraphWithCallEdges(graph, groups, extractor), graph))
    /\ [][ (epc = "ready" /\ epc' = "done") =>
            /\ graph'.nodes = graph.nodes
            /\ SubSeq(graph'.edges, 1, Len(graph.edges)) = graph.edges
            /\ \A k \in (Len(graph.edges) + 1)..Len(graph'.edges) :
                  /\ graph'.edges[k].from \in NodeIds(graph)
                  /\ extractor[FileOfNode(graph, graph'.edges[k].from)].content
                  /\ ~extractor[FileOfNode(graph, graph'.edges[k].from)].throws
                  /\ \E j \in 1..Len(extractor[FileOfNode(graph, graph'.edges[k].from)].edges) :
                        /\ extractor[FileOfNode(graph, graph'.edges[k].from)].edges[j].to = graph'.edges[k].to
                        /\ extractor[FileOfNode(graph, graph'.edges[k].from)].edges[j].confidence
                              = graph'.edges[k].weight
                        /\ Matchable(graph, FileOfNode(graph, graph'.edges[k].from),
                                     extractor[FileOfNode(graph, graph'.edges[k].from)].edges[j])
            /\ \A f \in DOMAIN extractor :
                  (extractor[f].content /\ ~extractor[f].throws) =>
                      \A j \in 1..Len(extractor[f].edges) :
                          Matchable(graph, f, extractor[f].edges[j]) =>
                              \E k \in (Len(graph.edges) + 1)..Len(graph'.edges) :
                                  /\ graph'.edges[k].to = extractor[f].edges[j].to
                                  /\ FileOfNode(graph, graph'.edges[k].from) = f ]_vars

\* the call has returned with call edges of one file added behind the
\* related edges, where another file had no content, the extraction of a
\* third threw, and a call of the first file matched no node
C22_Witness ==
    /\ epc = "done"
    /\ ~extractor["src/tools.py"].content
    /\ extractor["src/config.py"].throws
    /\ extractor["src/app.py"].edges = ExtractedCalls
    /\ Len(graph.nodes) = 4
    /\ Len(graph.edges) = 4
    /\ graph.edges[1].kind = "related"
    /\ graph.edges[3].kind = "uses_tool"
    /\ graph.edges[4].kind = "uses_model"

---------------------------------------------------------------------------
(* redTeaming: generateRedTeamingPlans on the paths detectRiskyPaths returned *)

\* `${id}:${file || ""}:${line ?? ""}` of a node of the path
PlanNodeKey(g, id) ==
    id \o ":" \o NodeById(g, id).file \o ":"
       \o (IF NodeById(g, id).line = Null THEN "" ELSE ToString(NodeById(g, id).line))

\* pathKey: the keys of source and sink, and between them the keys of the
\* transforms sorted and joined, which is the keys with their multiplicities
PlanPathKey(g, p) ==
    << PlanNodeKey(g, p.source),
       [k \in {PlanNodeKey(g, p.transforms[i]) : i \in 1..Len(p.transforms)} |->
           Cardinality({i \in 1..Len(p.transforms) : PlanNodeKey(g, p.transforms[i]) = k})],
       PlanNodeKey(g, p.sink) >>

\* uniquePaths: the first path of every key
PlanUniquePaths(g, ps) ==
    [k \in 1..Len(SelectSeq([i \in 1..Len(ps) |-> i],
                            LAMBDA i : \A j \in 1..(i - 1) : PlanPathKey(g, ps[j]) # PlanPathKey(g, ps[i]))) |->
        ps[SelectSeq([i \in 1..Len(ps) |-> i],
                     LAMBDA i : \A j \in 1..(i - 1) : PlanPathKey(g, ps[j]) # PlanPathKey(g, ps[i]))[k]]]

\* The body of the loop over uniquePaths reads plan.path.transforms to build
\* planId in the statement before the one that declares plan: the read
\* throws in the first round of the loop, whatever the path is. Without a
\* unique path the loop is not entered and the empty list is returned.
generateRedTeamingPlans(g, ps) ==
    IF Len(PlanUniquePaths(g, ps)) = 0
    THEN [threw |-> FALSE, plans |-> <<>>]
    ELSE [threw |-> TRUE, plans |-> <<>>]

\* performScan: generateRedTeamingPlans(riskyPaths, report, owasp) on what
\* detectRiskyPaths returned
GenerateRedTeamingPlans ==
    /\ rpc = "done"
    /\ ppc = "off"
    /\ ppc' = IF generateRedTeamingPlans(graph, result).threw THEN "threw" ELSE "returned"
    /\ redTeamingPlans' = generateRedTeamingPlans(graph, result).plans
    /\ UNCHANGED <<gvars, rvars, enrichVars, histVars>>

NextPlans == NextReach \/ GenerateRedTeamingPlans

SpecPlans == InitReach /\ [][NextPlans]_vars

\* C23: called with a non-empty list of risky paths, generateRedTeamingPlans
\* returns, with at least one plan
C23_PlansForEveryNonEmptyList ==
    (ppc # "off" /\ Len(result) > 0) => (ppc = "returned" /\ Len(redTeamingPlans) >= 1)

---------------------------------------------------------------------------
(* reachability: the weights propagateConfidence returns, edge by edge *)

\* What the enrichment adds for a file with one finding that imports a
\* module and calls run on it (import OpenAI from "openai"; openai.run(x)):
\* two edges of one id, the first of kind uses_model, the second a plain call
TwinEdgeGraph ==
    [ nodes |-> SubSeq(PoolNodes, 2, 2),
      edges |-> << [CallEdge(PoolNodes[2].id, "openai", (9 * SCALE) \div 10) EXCEPT !.kind = "uses_model"],
                   CallEdge(PoolNodes[2].id, "openai", (8 * SCALE) \div 10) >> ]

InitTwin ==
    /\ findings = <<>>
    /\ CURRENT = DEFAULT_CONFIG
    /\ groups = <<>>
    /\ gpc = "off"
    /\ load = "off"
    /\ graph \in Graphs \cup {TwinEdgeGraph}
    /\ rpc = "idle"
    /\ SearchIdle
    /\ EnrichOff
    /\ PlansOff
    /\ NoHistory

SpecTwin == InitTwin /\ [][NextReach]_vars

\* The ids a traversal from a seed stands on after following at most h edges
OneHopFrom(g, ids) ==
    ids \cup {g.edges[i].to : i \in {j \in 1..Len(g.edges) : g.edges[j].from \in ids}}

RECURSIVE SeedReach(_, _)
SeedReach(g, h) ==
    IF h = 0 THEN SeqToSet(HighConfNodes(g)) ELSE OneHopFrom(g, SeedReach(g, h - 1))

\* A traversal reaches the edge: it stands on the node the edge leaves
IsReached(g, e) == e.from \in SeedReach(g, PROPAGATION_MAX_PATH_LENGTH)

\* The least number of edges followed before the edge
HopsTo(g, e) == CHOOSE h \in 0..PROPAGATION_MAX_PATH_LENGTH :
                    /\ e.from \in SeedReach(g, h)
                    /\ \A k \in 0..(h - 1) : e.from \notin SeedReach(g, k)

\* best(e): the base weight of the edge decayed over the fewest hops, which
\* is the greatest of its decayed values; 0 for an edge no traversal reaches
BestOf(g, e) ==
    IF IsReached(g, e) THEN Mul(BaseWeight(g, e), Pow(DECAY_RATE, HopsTo(g, e))) ELSE 0

\* clamp(0.6 base(e) + 0.4 best(e)) on the grid of the model
StatedWeight(g, e) ==
    Max(0, Min(SCALE, (BaseWeight(g, e) * 6) \div 10 + (BestOf(g, e) * 4) \div 10))

\* C24: the weight propagateConfidence returns for an edge is the clamped
\* 0.6 base(e) + 0.4 best(e) of that edge; an edge that leaves a seed keeps
\* its base weight (to one step of the grid, each product being rounded
\* down), an edge no traversal reaches gets 0.6 base(e), and no weight
\* returned is above base(e)
C24_WeightIsBlendOfBaseAndBest ==
    [][ (rpc = "propagate" /\ rpc' = "idle") =>
            \A i \in 1..Len(graph.edges) :
                /\ graph'.edges[i].weight = StatedWeight(graph, graph.edges[i])
                /\ graph.edges[i].from \in SeqToSet(HighConfNodes(graph)) =>
                      /\ graph'.edges[i].weight <= BaseWeight(graph, graph.edges[i])
                      /\ graph'.edges[i].weight >= BaseWeight(graph, graph.edges[i]) - 1
                /\ ~IsReached(graph, graph.edges[i]) =>
                      graph'.edges[i].weight = (BaseWeight(graph, graph.edges[i]) * 6) \div 10
                /\ graph'.edges[i].weight <= BaseWeight(graph, graph.edges[i]) ]_vars

---------------------------------------------------------------------------
(* reachability: the hops of the paths detectRiskyPaths finds *)

\* The graph has an edge from one id to the other of weight at least 0.3, an
\* edge without weight counting as 0.5
HeavyEdge(g, from, to) ==
    \E j \in 1..Len(g.edges) :
        /\ g.edges[j].from = from
        /\ g.edges[j].to = to
        /\ (IF g.edges[j].weight = Null THEN SCALE \div 2 ELSE g.edges[j].weight) >= (3 * SCALE) \div 10

HopsAreHeavy(g, ids) ==
    /\ \A i \in 1..Len(ids) : ids[i] \in NodeIds(g)
    /\ \A i \in 1..(Len(ids) - 1) : HeavyEdge(g, ids[i], ids[i + 1])

\* C25: in every risky path found or returned, each node is a node of the
\* graph and each consecutive pair is joined by an edge of the graph, from
\* the first to the second, of weight at least 0.3 (0.5 for an edge without
\* weight); so an edge to a bare call target gives no hop
C25_HopsFollowHeavyEdges ==
    /\ \A k \in 1..Len(riskyPaths) : HopsAreHeavy(graph, riskyPaths[k].path)
    /\ \A k \in 1..Len(result) : HopsAreHeavy(graph, result[k].path)

\* detectRiskyPaths has returned, on the graph as built, the path over the
\* edge of weight 0.3 and the edge without weight, and no path over the edge
\* of weight 0.2
C25_Witness ==
    /\ rpc = "done"
    /\ ~propagated
    /\ graph = WeakEdgeGraph
    /\ \E k \in 1..Len(result) :
          result[k].path = <<PoolNodes[1].id, PoolNodes[4].id, PoolNodes[3].id>>
    /\ \A k \in 1..Len(result) : \A i \in 1..(Len(result[k].path) - 1) :
          ~(result[k].path[i] = PoolNodes[1].id /\ result[k].path[i + 1] = PoolNodes[2].id)

---------------------------------------------------------------------------
(* reachability: confidence and risk level of a risky path *)

\* The product of compositeScore, else confidence, else 0.5, over the first
\* i nodes of the path, taken in path order
RECURSIVE StatedProduct(_, _, _)
StatedProduct(g, ids, i) ==
    IF i = 0 THEN SCALE
    ELSE Mul(StatedProduct(g, ids, i - 1),
             IF NodeById(g, ids[i]).compositeScore # Null THEN NodeById(g, ids[i]).compositeScore
             ELSE IF NodeById(g, ids[i]).confidence # Null THEN NodeById(g, ids[i]).confidence
             ELSE SCALE \div 2)

\* The product times 0.9^(n - 1), clamped to [0,1]
StatedConfidence(g, ids) ==
    Max(0, Min(SCALE, Mul(StatedProduct(g, ids, Len(ids)), Pow((9 * SCALE) \div 10, Len(ids) - 1))))

ConfidenceAndLevelAsStated(g, p) ==
    /\ p.confidence = StatedConfidence(g, p.path)
    /\ p.riskLevel = "critical" <=> p.confidence >= (8 * SCALE) \div 10
    /\ p.riskLevel = "high" <=> (p.confidence >= (6 * SCALE) \div 10 /\ p.confidence < (8 * SCALE) \div 10)
    /\ p.riskLevel = "moderate" <=> (p.confidence >= (4 * SCALE) \div 10 /\ p.confidence < (6 * SCALE) \div 10)
    /\ p.riskLevel = "low" <=> p.confidence < (4 * SCALE) \div 10
    /\ p.riskLevel \in {"critical", "high", "moderate", "low"}

\* C26: the confidence of every risky path found or returned is the product
\* of the confidences of the nodes of its path (compositeScore, else
\* confidence, else 0.5) times 0.9^(n - 1) for its n nodes, clamped to
\* [0,1]; its risk level is critical from 0.8, high from 0.6, moderate from
\* 0.4 and low below
C26_ConfidenceAndRiskLevel ==
    /\ \A k \in 1..Len(riskyPaths) : ConfidenceAndLevelAsStated(graph, riskyPaths[k])
    /\ \A k \in 1..Len(result) : ConfidenceAndLevelAsStated(graph, result[k])

\* detectRiskyPaths has returned a path of three nodes, one of them with a
\* composite score, of level moderate, and has found one of level low
C26_Witness ==
    /\ rpc = "done"
    /\ graph = DiamondGraph
    /\ \E k \in 1..Len(result) :
          /\ result[k].path = <<PoolNodes[1].id, PoolNodes[2].id, PoolNodes[3].id>>
          /\ result[k].riskLevel = "moderate"
          /\ result[k].confidence = Mul(Mul(Mul((8 * SCALE) \div 10, (9 * SCALE) \div 10), (7 * SCALE) \div 10),
                                        (81 * SCALE) \div 100)
    /\ \E k \in 1..Len(riskyPaths) : riskyPaths[k].riskLevel = "low"

---------------------------------------------------------------------------
(* reachability: the shape of a risky path *)

IsSimplePath(g, p) ==
    /\ \A i, j \in 1..Len(p.path) : p.path[i] = p.path[j] => i = j
    /\ p.path[1] = p.source
    /\ p.source \in SeqToSet(sourceNodes)
    /\ p.path[Len(p.path)] = p.sink
    /\ p.sink \in SeqToSet(sinkNodes)
    /\ \A i \in 1..(Len(p.path) - 1) : p.path[i] # p.sink
    /\ Len(p.path) - 1 <= 6
    /\ p.transforms = SelectSeq(p.path, LAMBDA id : NodeFacts[NodeById(g, id)].transform)

\* C27: every risky path found or returned visits no node twice, begins at
\* the source and ends at the sink of its search, which is nowhere else on
\* it, has at most 6 hops, and lists as transforms the nodes of the path
\* that are transforms, in path order; between two top-level searches
\* visited, path and transforms are empty
C27_SimplePathsAndCleanStacks ==
    /\ \A k \in 1..Len(riskyPaths) : IsSimplePath(graph, riskyPaths[k])
    /\ \A k \in 1..Len(result) : IsSimplePath(graph, result[k])
    /\ (rpc \in {"detect", "done"} /\ stack = <<>>) =>
          (visited = {} /\ path = <<>> /\ transforms = <<>>)

\* detectRiskyPaths has returned on the ring of eight nodes: a path of seven
\* nodes, the longest allowed, was found, and the stacks are empty
C27_Witness ==
    /\ rpc = "done"
    /\ graph.nodes = RingNodes
    /\ \E k \in 1..Len(result) :
          /\ Len(result[k].path) = 7
          /\ Len(result[k].transforms) >= 2
    /\ stack = <<>>
    /\ visited = {}
    /\ path = <<>>
    /\ transforms = <<>>

---------------------------------------------------------------------------
(* grouping: the demotion of loop groups *)

LoopRules == {"AG-LOOP-AUTOEXEC", "AG-LOOP-WITH-AGENT", "AG-ASYNC-AGENT-LOOP"}

InvokeRules == {"AG-LANGGRAPH-INVOKE", "AG-LANGGRAPH-STREAM", "AG-LANGCHAIN-INVOKE"}

\* The summed signals of a group with the boosts, the path demotions that
\* apply to its file, and the loop demotion, clamped
LoopDemotedScore(c, g) ==
    Clamp01(applyDemotions(c,
                applyBoosts(c, SignalSum(g.contributingSignals, 1),
                            RoleCount(g.contributingSignals, "usage"),
                            RoleCount(g.contributingSignals, "hint"),
                            RoleCount(g.contributingSignals, "metadata")),
                isTestOrExamplePath(g.file), TRUE, isMockLikePath(g.file)))

\* C28: a group whose primary is a finding of a loop rule has no signal of
\* an invoke or stream rule, whatever else its file holds, and its score
\* carries the loop demotion
C28_LoopGroupsAlwaysDemoted ==
    Grouped =>
        \A k \in 1..Len(groups) :
            groups[k].primaryFinding.ruleId \in LoopRules =>
                /\ \A i \in 1..Len(groups[k].contributingSignals) :
                      groups[k].contributingSignals[i].ruleId \notin InvokeRules
                /\ groups[k].compositeScore = LoopDemotedScore(CURRENT, groups[k])

\* A file with a loop and an invocation of a graph has been grouped under
\* the defaults: the loop has a group of its own, at 0.75 x 0.8 x 0.8, and
\* the invocation has another
C28_Witness ==
    /\ Grouped
    /\ CURRENT = DEFAULT_CONFIG
    /\ Len(findings) = 2
    /\ findings[1].ruleId = "AG-LOOP-AUTOEXEC"
    /\ findings[2].ruleId = "AG-LANGGRAPH-INVOKE"
    /\ findings[1].file = findings[2].file
    /\ \E k \in 1..Len(groups) :
          /\ groups[k].primaryFinding.ruleId = "AG-LOOP-AUTOEXEC"
          /\ groups[k].compositeScore = (48 * SCALE) \div 100
    /\ \E k \in 1..Len(groups) : groups[k].primaryFinding.ruleId = "AG-LANGGRAPH-INVOKE"

---------------------------------------------------------------------------
(* scoring: setScoringConfig called again and again *)

\* The scans of one process, with their setScoringConfig calls on record
InitConfig ==
    /\ findings \in ScenarioLists \cup {<<>>}
    /\ CURRENT = DEFAULT_CONFIG
    /\ groups = <<>>
    /\ gpc = "ready"
    /\ load = "pending"
    /\ graph = [nodes |-> <<>>, edges |-> <<>>]
    /\ rpc = "off"
    /\ SearchIdle
    /\ EnrichOff
    /\ PlansOff
    /\ NoHistory

\* setScoringConfig(cfg); the call and the one before it are kept on record
SetScoringConfigCall ==
    /\ gpc = "ready"
    /\ \E cfg \in ConfigInputs : CURRENT' = setScoringConfig(cfg) /\ lastCfg' = cfg
    /\ prevCfg' = lastCfg
    /\ load' = "ok"
    /\ UNCHANGED <<findings, groups, gpc>>
    /\ UNCHANGED rvars
    /\ UNCHANGED <<enrichVars, planVars>>

NextConfig == SetScoringConfigCall \/ LoadFails \/ GroupFindings \/ NextScan

SpecConfig == InitConfig /\ [][NextConfig]_vars

\* The option is given in the configuration handed over
IsGiven(cfg, s, k) == s \in DOMAIN cfg /\ k \in DOMAIN cfg[s]

\* The defaults with the options given in cfg in their place
DefaultsWith(cfg) ==
    [s \in DOMAIN DEFAULT_CONFIG |->
        [k \in DOMAIN DEFAULT_CONFIG[s] \cup (IF s \in DOMAIN cfg THEN DOMAIN cfg[s] ELSE {}) |->
            IF IsGiven(cfg, s, k) THEN cfg[s][k] ELSE DEFAULT_CONFIG[s][k]]]

\* C29: after any sequence of setScoringConfig calls the configuration in
\* force is the defaults with the options of the last call in their place;
\* an option the last call leaves out has its default, whatever an earlier
\* call gave it
C29_LastCallOverDefaults ==
    /\ CURRENT = DefaultsWith(lastCfg)
    /\ \A s \in DOMAIN DEFAULT_CONFIG : \A k \in DOMAIN DEFAULT_CONFIG[s] :
          ~IsGiven(lastCfg, s, k) => CURRENT[s][k] = DEFAULT_CONFIG[s][k]

\* Two calls have been made: the first gave thresholds.minGroup 0.4, the
\* last gave caps.perGroupRelated 1 and no threshold; minGroup is 0.35 again
C29_Witness ==
    /\ IsGiven(prevCfg, "thresholds", "minGroup")
    /\ prevCfg.thresholds.minGroup = 4000
    /\ IsGiven(lastCfg, "caps", "perGroupRelated")
    /\ ~IsGiven(lastCfg, "thresholds", "minGroup")
    /\ CURRENT.thresholds.minGroup = 3500
    /\ CURRENT.caps.perGroupRelated = 1

---------------------------------------------------------------------------
(* grouping: hints and metadata pulled into usage clusters *)

\* The rule of a usage cluster relates it to the finding: a hint whose rule is
\* among the cluster rule's childRules, or a metadata finding whose parentRules
\* name the cluster's rule
ListedBy(ruleId, h) ==
    \/ RuleType(h.ruleId) = "hint" /\ h.ruleId \in SeqToSet(ChildRules(ruleId))
    \/ RuleType(h.ruleId) = "metadata" /\ ruleId \in SeqToSet(ParentRules(h.ruleId))

\* Some usage finding of the file of h has a rule that pulls h into its cluster
PulledIn(h) ==
    \E u \in Deduplicated :
        u.file = h.file /\ RuleType(u.ruleId) = "usage" /\ ListedBy(u.ruleId, h)

\* The returned groups of the usage clusters of the file of h whose rule lists h
ClustersListing(h) ==
    {g \in GroupSet :
        /\ g.primaryFinding.file = h.file
        /\ RuleType(g.primaryFinding.ruleId) = "usage"
        /\ ListedBy(g.primaryFinding.ruleId, h)}

AppearsIn(h, g) == g.primaryFinding.id = h.id \/ h.id \in Ids(g.relatedFindings)

\* C30: a hint or metadata finding pulled into a usage cluster of its file is
\* the primary of no returned group; every usage cluster of the file whose rule
\* lists it has it in its related list unless the perGroupRelated cap cut the
\* list (the list is then as long as the cap); a finding cut out of every
\* list appears in no returned group
C30_PulledEvidenceNeverStandalone ==
    Grouped => \A h \in Deduplicated :
        PulledIn(h) =>
            /\ \A g \in GroupSet : g.primaryFinding.id # h.id
            /\ ClustersListing(h) # {}
            /\ \A g \in ClustersListing(h) :
                  \/ h.id \in Ids(g.relatedFindings)
                  \/ Len(g.relatedFindings) = getRelatedCap(CURRENT)
            /\ (\A g \in ClustersListing(h) : h.id \notin Ids(g.relatedFindings))
                  => \A g \in GroupSet : ~AppearsIn(h, g)

\* cap 1, one file with an MCP import, an MCP protocol marker, an MCP client
\* and MCP tools: the import is related to both clusters, the protocol marker
\* is cut out of both lists and is in no returned group
C30_Witness ==
    /\ Grouped
    /\ getRelatedCap(CURRENT) = 1
    /\ \E h, m \in Deduplicated :
        /\ h.ruleId = "AI-MCP-IMPORT" /\ m.ruleId = "AI-MCP-PROTOCOL"
        /\ h.file = m.file
        /\ PulledIn(h) /\ PulledIn(m)
        /\ Cardinality(ClustersListing(h)) = 2
        /\ \A g \in ClustersListing(h) : g.relatedFindings = <<h>>
        /\ ClustersListing(m) = ClustersListing(h)
        /\ \A g \in GroupSet : ~AppearsIn(m, g)

====
